---- MODULE Spec2Model ----
(***************************************************************************)
(* Model of the infrastructure scanner src/scanner/scan.py.                *)
(*                                                                         *)
(* The scanner's functions are translated to operators that thread the     *)
(* mutable state they touch (the error log errors_list and the log of      *)
(* external calls) and return records.  A Python exception is a record     *)
(* with raised = TRUE; None is the reserved value None.  Strings are TLA+  *)
(* strings and the string methods the code uses (strip, split, startswith, *)
(* in) are computed character by character.                                *)
(***************************************************************************)
EXTENDS Integers, Sequences, FiniteSets, TLC

VARIABLES
    pc,           \* position of the running function
    env,          \* configuration and the answers of the outside world
    ret,          \* the value returned by the function under execution; in
                  \* main, the totals of save_to_database, then the exit code
    errors_list,  \* main(): errors_list, the flat error log
    all_results,  \* main(): all_results, the aggregated dataset
    calls,        \* every external call made so far, in order
    db,           \* the database behind the sink
    scan_id,      \* main(): scan_id of the current run
    outcomes      \* main(): how each scan_proxmox_host and scan_homeassistant
                  \* call ended, in order (history)

vars ==
    <<pc, env, ret, errors_list, all_results, calls, db, scan_id, outcomes>>

-----------------------------------------------------------------------------
(* Python values *)

\* Python's None, where the other values are strings.
None == "<None>"

\* Python truthiness of an optional string: None and '' are falsy.
Truthy(x) == x # None /\ x # ""

\* The element of a one-element set.  TLC computes a LET definition anew
\* wherever it is used, and a bound variable once: a result that later steps
\* build on is bound as x \in {result}.
The(S) == CHOOSE x \in S : TRUE

\* traceback.format_exc() when no exception is being handled.
NoTraceback == "NoneType: None\n"

\* traceback.format_exc() inside an except block handling exception e.
Traceback(e) == "Traceback (most recent call last): " \o e

-----------------------------------------------------------------------------
(* Python string methods *)

Whitespace == {" ", "\n", "\t", "\r"}

CharAt(s, i) == SubSeq(s, i, i)

\* s.startswith(p)
StartsWith(s, p) == Len(s) >= Len(p) /\ SubSeq(s, 1, Len(p)) = p

\* p in s
Contains(s, p) ==
    \E i \in 1..(Len(s) - Len(p) + 1) : SubSeq(s, i, i + Len(p) - 1) = p

RECURSIVE LStrip(_)
LStrip(s) ==
    IF Len(s) > 0 /\ CharAt(s, 1) \in Whitespace
    THEN LStrip(SubSeq(s, 2, Len(s)))
    ELSE s

RECURSIVE RStrip(_)
RStrip(s) ==
    IF Len(s) > 0 /\ CharAt(s, Len(s)) \in Whitespace
    THEN RStrip(SubSeq(s, 1, Len(s) - 1))
    ELSE s

\* s.strip()
Strip(s) == RStrip(LStrip(s))

\* Index of the first occurrence of the one-character separator, 0 if none.
RECURSIVE FindFrom(_, _, _)
FindFrom(s, sep, i) ==
    IF i > Len(s) THEN 0
    ELSE IF CharAt(s, i) = sep THEN i
    ELSE FindFrom(s, sep, i + 1)

\* s.split(sep) for a one-character separator: never empty, '' gives [''].
RECURSIVE Split(_, _)
Split(s, sep) ==
    LET i == FindFrom(s, sep, 1) IN
    IF i = 0 THEN <<s>>
    ELSE <<SubSeq(s, 1, i - 1)>> \o Split(SubSeq(s, i + 1, Len(s)), sep)

\* sep.join(parts)
RECURSIVE Join(_, _)
Join(parts, sep) ==
    IF Len(parts) = 0 THEN ""
    ELSE IF Len(parts) = 1 THEN parts[1]
    ELSE parts[1] \o sep \o Join(Tail(parts), sep)

-----------------------------------------------------------------------------
(* ssh_exec and try_ssh_exec *)

\* A ScanError as appended to errors_list.
ScanError(sid, ip, component, message, detail) ==
    [scan_id |-> sid, host_ip |-> ip, component |-> component,
     error_message |-> message, error_detail |-> detail]

\* An entry of the call log: the call and whether it raised.
SshCall(ip, user, command, raised) ==
    [op |-> "ssh_exec", ip |-> ip, user |-> user, command |-> command,
     raised |-> raised]

\* ssh_exec: connect and run the command; answer is what the remote machine
\* does for this (ip, command, username): it raises, or it prints stdout,
\* which is returned decoded and stripped.
ssh_exec(answer) ==
    IF answer.raised
    THEN [raised |-> TRUE, val |-> answer.val]
    ELSE [raised |-> FALSE, val |-> Strip(answer.val)]

\* UsersToTry without the test that the alternate differs from the primary.
UsersToTryNoDistinctTest(ssh_config) ==
    IF Truthy(ssh_config.alt_username)
    THEN <<ssh_config.username, ssh_config.alt_username>>
    ELSE <<ssh_config.username>>

\* The list users_to_try of try_ssh_exec.
UsersToTry(ssh_config) ==
    IF Truthy(ssh_config.alt_username)
       /\ ssh_config.alt_username # ssh_config.username
    THEN <<ssh_config.username, ssh_config.alt_username>>
    ELSE <<ssh_config.username>>

\* The for loop of try_ssh_exec from users[i] on: returns at the first
\* attempt that does not raise, else remembers the exception in last_error.
RECURSIVE SshLoop(_, _, _, _, _, _, _)
SshLoop(e, ip, command, users, i, last_error, log) ==
    IF i > Len(users)
    THEN [returned |-> FALSE, val |-> None, last_error |-> last_error,
          calls |-> log]
    ELSE LET r == ssh_exec(e.ssh[<<ip, command, users[i]>>])
             log2 == Append(log, SshCall(ip, users[i], command, r.raised))
         IN  IF r.raised
             THEN SshLoop(e, ip, command, users, i + 1, r.val, log2)
             ELSE [returned |-> TRUE, val |-> r.val,
                   last_error |-> last_error, calls |-> log2]

SshFailedMessage(ip, users, last_error) ==
    "SSH to " \o ip \o " failed (tried: " \o Join(users, ", ") \o "): "
        \o last_error

\* try_ssh_exec recording one error for each failed attempt.
try_ssh_exec_error_per_attempt(e, ip, ssh_config, command, errs, log, sid, component) ==
    LET users == UsersToTry(ssh_config)
        r == SshLoop(e, ip, command, users, 1, None, log)
    IN  IF r.returned
        THEN [ret |-> r.val, errors_list |-> errs, calls |-> r.calls]
        ELSE [ret |-> None,
              errors_list |-> errs \o
                  [i \in 1..Len(users) |->
                      ScanError(sid, ip, component,
                                SshFailedMessage(ip, users,
                                    e.ssh[<<ip, command, users[i]>>].val),
                                NoTraceback)],
              calls |-> r.calls]

\* try_ssh_exec(ip, ssh_config, command, errors_list, scan_id, component):
\* the value returned, the error log and the call log afterwards.
try_ssh_exec(e, ip, ssh_config, command, errs, log, sid, component) ==
    LET users == UsersToTry(ssh_config)
        r == SshLoop(e, ip, command, users, 1, None, log)
    IN  IF r.returned
        THEN [ret |-> r.val, errors_list |-> errs, calls |-> r.calls]
        ELSE [ret |-> None,
              errors_list |-> Append(errs,
                  ScanError(sid, ip, component,
                            SshFailedMessage(ip, users, r.last_error),
                            NoTraceback)),
              calls |-> r.calls]

-----------------------------------------------------------------------------
(* JSON payloads of the management API and proxmox_api *)

JNull == [t |-> "null"]

JStr(s) == [t |-> "str", v |-> s]

JList(xs) == [t |-> "list", v |-> xs]

\* A dict keeps its items in order: a sequence of <<key, value>>.
JDict(items) == [t |-> "dict", v |-> items]

\* isinstance(x, dict), isinstance(x, list)
IsDict(x) == x.t = "dict"

IsList(x) == x.t = "list"

\* key in d
HasKey(d, key) == \E i \in 1..Len(d.v) : d.v[i][1] = key

\* d.get(key, default)
JGet(d, key, default) ==
    IF HasKey(d, key)
    THEN d.v[CHOOSE i \in 1..Len(d.v) : d.v[i][1] = key][2]
    ELSE default

ApiCall(ip, endpoint, raised) ==
    [op |-> "proxmox_api", ip |-> ip, endpoint |-> endpoint,
     raised |-> raised]

\* proxmox_api(host_ip, port, ticket, endpoint): the request raises, or the
\* data field of the answer is returned.
proxmox_api(e, ip, endpoint) == e.api[<<ip, endpoint>>]

-----------------------------------------------------------------------------
(* get_guest_ip_from_proxmox *)

AgentEndpoint(node_name, vmid) ==
    "/nodes/" \o node_name \o "/qemu/" \o ToString(vmid)
        \o "/agent/network-get-interfaces"

LxcConfigEndpoint(node_name, vmid) ==
    "/nodes/" \o node_name \o "/lxc/" \o ToString(vmid) \o "/config"

LxcInterfacesEndpoint(node_name, vmid) ==
    "/nodes/" \o node_name \o "/lxc/" \o ToString(vmid) \o "/interfaces"

\* The loop over one interface's ip-addresses from addrs[j] on: the first
\* IPv4 address that does not start with 127., or None.
RECURSIVE AgentAddrLoop(_, _)
AgentAddrLoop(addrs, j) ==
    IF j > Len(addrs) THEN None
    ELSE IF /\ JGet(addrs[j], "ip-address-type", JNull) = JStr("ipv4")
            /\ ~StartsWith(JGet(addrs[j], "ip-address", JNull).v, "127.")
         THEN JGet(addrs[j], "ip-address", JNull).v
         ELSE AgentAddrLoop(addrs, j + 1)

\* AgentIfaceLoop going into the interface named lo as well.
RECURSIVE AgentIfaceLoopWithLo(_, _)
AgentIfaceLoopWithLo(ifaces, i) ==
    IF i > Len(ifaces) THEN None
    ELSE LET found == AgentAddrLoop(
                          JGet(ifaces[i], "ip-addresses", JList(<<>>)).v, 1)
         IN  IF found # None THEN found
             ELSE AgentIfaceLoopWithLo(ifaces, i + 1)

\* The loop over the agent's interfaces from ifaces[i] on.
RECURSIVE AgentIfaceLoop(_, _)
AgentIfaceLoop(ifaces, i) ==
    IF i > Len(ifaces) THEN None
    ELSE IF JGet(ifaces[i], "name", JNull) = JStr("lo")
         THEN AgentIfaceLoop(ifaces, i + 1)
         ELSE LET found == AgentAddrLoop(
                          JGet(ifaces[i], "ip-addresses", JList(<<>>)).v, 1)
              IN  IF found # None THEN found
                  ELSE AgentIfaceLoop(ifaces, i + 1)

\* The qemu branch, before the function's outer except.
GuestIpQemu(e, host_ip, node_name, vmid) ==
    LET ep == AgentEndpoint(node_name, vmid)
        data == proxmox_api(e, host_ip, ep)
        log == <<ApiCall(host_ip, ep, data.raised)>>
    IN  IF data.raised
        THEN [raised |-> TRUE, val |-> None, calls |-> log]
        ELSE IF IsDict(data.val) /\ HasKey(data.val, "result")
        THEN LET result == JGet(data.val, "result", JNull) IN
             IF ~IsList(result)
             THEN [raised |-> TRUE, val |-> None, calls |-> log]
             ELSE [raised |-> FALSE, val |-> AgentIfaceLoop(result.v, 1),
                   calls |-> log]
        ELSE [raised |-> FALSE, val |-> None, calls |-> log]

\* IpValue without the cut at the slash.
IpValueKeepCidr(p) == Split(Strip(p), "=")[2]

\* p.strip().split('=')[1].split('/')[0]
IpValue(p) == Split(Split(Strip(p), "=")[2], "/")[1]

\* The loop over the parts of one netN value from parts[j] on.
RECURSIVE NetPartLoop(_, _)
NetPartLoop(parts, j) ==
    IF j > Len(parts) THEN None
    ELSE IF /\ StartsWith(Strip(parts[j]), "ip=")
            /\ IpValue(parts[j]) # ""
            /\ IpValue(parts[j]) # "dhcp"
         THEN IpValue(parts[j])
         ELSE NetPartLoop(parts, j + 1)

\* The loop over the items of the declared config from items[i] on.
RECURSIVE LxcConfigLoop(_, _)
LxcConfigLoop(items, i) ==
    IF i > Len(items) THEN None
    ELSE LET key == items[i][1]
             val == items[i][2].v
         IN  IF StartsWith(key, "net") /\ Contains(val, "ip=")
             THEN LET found == NetPartLoop(Split(val, ","), 1) IN
                  IF found # None THEN found
                  ELSE LxcConfigLoop(items, i + 1)
             ELSE LxcConfigLoop(items, i + 1)

\* The loop over the live interfaces from ifaces[i] on.
RECURSIVE LxcIfaceLoop(_, _)
LxcIfaceLoop(ifaces, i) ==
    IF i > Len(ifaces) THEN None
    ELSE LET inet == JGet(ifaces[i], "inet", JStr("")).v IN
         IF JGet(ifaces[i], "name", JNull) = JStr("lo")
         THEN LxcIfaceLoop(ifaces, i + 1)
         ELSE IF inet # "" /\ ~StartsWith(inet, "127.")
         THEN Split(inet, "/")[1]
         ELSE LxcIfaceLoop(ifaces, i + 1)

\* The inner try block around the live-interfaces query.
LxcTryInterfaces(e, host_ip, node_name, vmid, log) ==
    LET ep == LxcInterfacesEndpoint(node_name, vmid)
        ifaces == proxmox_api(e, host_ip, ep)
        log2 == Append(log, ApiCall(host_ip, ep, ifaces.raised))
    IN  IF ifaces.raised
        THEN [raised |-> FALSE, val |-> None, calls |-> log2]
        ELSE IF IsList(ifaces.val)
        THEN [raised |-> FALSE, val |-> LxcIfaceLoop(ifaces.val.v, 1),
              calls |-> log2]
        ELSE [raised |-> FALSE, val |-> None, calls |-> log2]

\* The lxc branch, before the function's outer except.
GuestIpLxc(e, host_ip, node_name, vmid) ==
    LET ep == LxcConfigEndpoint(node_name, vmid)
        data == proxmox_api(e, host_ip, ep)
        log == <<ApiCall(host_ip, ep, data.raised)>>
    IN  IF data.raised \/ ~IsDict(data.val)
        THEN [raised |-> TRUE, val |-> None, calls |-> log]
        ELSE LET found == LxcConfigLoop(data.val.v, 1) IN
             IF found # None
             THEN [raised |-> FALSE, val |-> found, calls |-> log]
             ELSE LxcTryInterfaces(e, host_ip, node_name, vmid, log)

\* get_guest_ip_from_proxmox letting the exceptions of its body through.
get_guest_ip_no_outer_except(e, host_ip, node_name, vmtype, vmid, log) ==
    LET r == IF vmtype = "qemu"
             THEN GuestIpQemu(e, host_ip, node_name, vmid)
             ELSE GuestIpLxc(e, host_ip, node_name, vmid)
    IN  [raised |-> r.raised, ret |-> r.val, calls |-> log \o r.calls]

\* get_guest_ip_from_proxmox(host_ip, port, ticket, node_name, vmtype, vmid):
\* whatever its body raises ends in the outer except and returns None.
get_guest_ip_from_proxmox(e, host_ip, node_name, vmtype, vmid, log) ==
    LET r == IF vmtype = "qemu"
             THEN GuestIpQemu(e, host_ip, node_name, vmid)
             ELSE GuestIpLxc(e, host_ip, node_name, vmid)
    IN  [raised |-> FALSE,
         ret |-> IF r.raised THEN None ELSE r.val,
         calls |-> log \o r.calls]

-----------------------------------------------------------------------------
(* scan_docker_on_host *)

CmdDockerCheck ==
    "which docker 2>/dev/null && docker info --format '{{.ServerVersion}}' 2>/dev/null || echo 'NO_DOCKER'"

CmdDockerPs ==
    "docker ps -a --format '{\"id\":\"{{.ID}}\",\"name\":\"{{.Names}}\",\"image\":\"{{.Image}}\",\"status\":\"{{.Status}}\",\"state\":\"{{.State}}\",\"ports\":\"{{.Ports}}\",\"created\":\"{{.CreatedAt}}\",\"networks\":\"{{.Networks}}\",\"mounts\":\"{{.Mounts}}\"}' 2>/dev/null"

CmdHostname == "hostname"

\* Lines a container listing can hold.
LineA1 == "{\"id\":\"a1\",\"name\":\"web\",\"image\":\"nginx\",\"state\":\"running\"}"

LineB2 == "{\"id\":\"b2\",\"name\":\"db\"}"

LineNotJson == "not-json"

LineNull == "null"

\* json.loads(line) on the lines above: a dict, another JSON value, or
\* json.JSONDecodeError (the empty string included).
JsonLoads(line) ==
    CASE line = LineA1 ->
            [kind |-> "dict",
             val |-> [id |-> "a1", name |-> "web", image |-> "nginx",
                      state |-> "running"]]
      [] line = LineB2 ->
            [kind |-> "dict", val |-> [id |-> "b2", name |-> "db"]]
      [] line = LineNull -> [kind |-> "other", val |-> None]
      [] OTHER -> [kind |-> "JSONDecodeError", val |-> None]

\* c.get(key, '') on a dict
DictGet(c, key) == IF key \in DOMAIN c THEN c[key] ELSE ""

\* The container entry built from the parsed line c.
ContainerEntry(ip, hostname, c) ==
    [host_ip |-> ip, host_name |-> hostname,
     container_id |-> DictGet(c, "id"), name |-> DictGet(c, "name"),
     image |-> DictGet(c, "image"), status |-> DictGet(c, "status"),
     state |-> DictGet(c, "state"), ports |-> DictGet(c, "ports"),
     created_at |-> DictGet(c, "created"),
     networks |-> DictGet(c, "networks"), mounts |-> DictGet(c, "mounts")]

DockerParseError(sid, ip, line) ==
    ScanError(sid, ip, "Docker-Parse",
              "Failed to parse Docker JSON from " \o ip, line)

AttributeErrorGet == "AttributeError: object has no attribute 'get'"

\* The loop over the listing's lines from lines[i] on.  A line that parses to
\* something that is no dict raises out of the loop at c.get.
RECURSIVE DockerLines(_, _, _, _, _, _, _)
DockerLines(lines, i, ip, hostname, sid, containers, errs) ==
    IF i > Len(lines)
    THEN [raised |-> FALSE, exc |-> None, containers |-> containers,
          errors_list |-> errs]
    ELSE LET line == Strip(lines[i]) IN
         IF line = ""
         THEN DockerLines(lines, i + 1, ip, hostname, sid, containers, errs)
         ELSE LET c == JsonLoads(line) IN
              CASE c.kind = "dict" ->
                      DockerLines(lines, i + 1, ip, hostname, sid,
                          Append(containers,
                                 ContainerEntry(ip, hostname, c.val)),
                          errs)
                [] c.kind = "JSONDecodeError" ->
                      DockerLines(lines, i + 1, ip, hostname, sid, containers,
                          Append(errs, DockerParseError(sid, ip, line)))
                [] OTHER ->
                      [raised |-> TRUE, exc |-> AttributeErrorGet,
                       containers |-> containers, errors_list |-> errs]

\* NoDocker going on when the presence check gave no output at all.
NoDockerSentinelOnly(docker_check) ==
    Truthy(docker_check) /\ Contains(docker_check, "NO_DOCKER")

\* NoDocker comparing the whole output with the sentinel.
NoDockerWholeOutput(docker_check) ==
    ~Truthy(docker_check) \/ docker_check = "NO_DOCKER"

\* The sentinel test on the presence check's output.
NoDocker(docker_check) ==
    ~Truthy(docker_check) \/ Contains(docker_check, "NO_DOCKER")

\* scan_docker_on_host(ip, ssh_config, errors_list, scan_id): the list
\* returned (or the exception raised), the error log and the call log.
scan_docker_on_host(e, ip, ssh_config, errs, log, sid) ==
    LET chk == try_ssh_exec(e, ip, ssh_config, CmdDockerCheck, errs, log,
                            sid, "Docker")
    IN
    IF NoDocker(chk.ret)
    THEN [raised |-> FALSE, exc |-> None, ret |-> <<>>,
          errors_list |-> chk.errors_list, calls |-> chk.calls]
    ELSE
    LET ps == try_ssh_exec(e, ip, ssh_config, CmdDockerPs, chk.errors_list,
                           chk.calls, sid, "Docker")
    IN
    IF ~Truthy(ps.ret)
    THEN [raised |-> FALSE, exc |-> None, ret |-> <<>>,
          errors_list |-> ps.errors_list, calls |-> ps.calls]
    ELSE
    LET hn == try_ssh_exec(e, ip, ssh_config, CmdHostname, ps.errors_list,
                           ps.calls, sid, "Docker")
        hostname == IF Truthy(hn.ret) THEN hn.ret ELSE ip
        r == DockerLines(Split(Strip(ps.ret), "\n"), 1, ip, hostname, sid,
                         <<>>, hn.errors_list)
    IN  [raised |-> r.raised, exc |-> r.exc,
         ret |-> IF r.raised THEN <<>> ELSE r.containers,
         errors_list |-> r.errors_list, calls |-> hn.calls]

-----------------------------------------------------------------------------
(* scan_proxmox_host *)

\* Python's None where the other values are records (result['host']).
NoneRec == [none |-> TRUE]

JNum(n) == [t |-> "num", v |-> n]

\* The truth value of a JSON payload.
JTruthy(x) ==
    CASE x.t = "null" -> FALSE
      [] x.t = "num" -> x.v # 0
      [] x.t = "str" -> x.v # ""
      [] OTHER -> Len(x.v) > 0

\* The Python value of a JSON scalar.
PyVal(x) == IF x.t = "null" THEN None ELSE x.v

\* scan_options.get(key, default)
OptGet(options, key, default) ==
    IF key \in DOMAIN options THEN options[key] ELSE default

\* d[key] = value on a dict kept as a sequence of <<key, value>>.
DictSet(d, key, value) ==
    IF \E i \in 1..Len(d) : d[i][1] = key
    THEN [i \in 1..Len(d) |-> IF d[i][1] = key THEN <<key, value>> ELSE d[i]]
    ELSE Append(d, <<key, value>>)

\* The result dict scan_proxmox_host starts from.
EmptyResult ==
    [host |-> NoneRec, vms |-> <<>>, lxcs |-> <<>>, docker |-> <<>>,
     storage |-> <<>>, network |-> <<>>]

AuthCall(ip, raised) ==
    [op |-> "proxmox_authenticate", ip |-> ip, raised |-> raised]

\* proxmox_authenticate(host_ip, port, user, password): raises or returns
\* the ticket.
proxmox_authenticate(e, ip) == e.auth[ip]

AttributeError == "AttributeError: object has no attribute"

TypeErrorNotIterable == "TypeError: object is not iterable"

\* The locals of scan_proxmox_host on entry.  done: the function returned;
\* raised: an exception left it.
HostStart(errs, log) ==
    [done |-> FALSE, raised |-> FALSE, exc |-> None, result |-> EmptyResult,
     errors_list |-> errs, calls |-> log, version_data |-> JNull,
     node |-> JNull, node_name |-> None, guest_ips |-> <<>>]

HostRaise(st, exc) == [st EXCEPT !.raised = TRUE, !.exc = exc]

\* HostAuthenticate going on after a failed authentication.
HostAuthenticateNoReturn(e, ip, sid, st) ==
    LET a == proxmox_authenticate(e, ip)
        log == Append(st.calls, AuthCall(ip, a.raised))
    IN  IF a.raised
        THEN [st EXCEPT !.calls = log,
                 !.errors_list = Append(@,
                     ScanError(sid, ip, "Proxmox-Auth",
                         "Authentication failed for " \o ip \o ": " \o a.val,
                         Traceback(a.val)))]
        ELSE [st EXCEPT !.calls = log]

\* "# Authenticate"
HostAuthenticate(e, ip, sid, st) ==
    LET a == proxmox_authenticate(e, ip)
        log == Append(st.calls, AuthCall(ip, a.raised))
    IN  IF a.raised
        THEN [st EXCEPT !.done = TRUE, !.calls = log,
                 !.errors_list = Append(@,
                     ScanError(sid, ip, "Proxmox-Auth",
                         "Authentication failed for " \o ip \o ": " \o a.val,
                         Traceback(a.val)))]
        ELSE [st EXCEPT !.calls = log]

\* "# Get version"
HostVersion(e, ip, st) ==
    IF st.done \/ st.raised THEN st
    ELSE LET v == proxmox_api(e, ip, "/version") IN
         [st EXCEPT !.calls = Append(@, ApiCall(ip, "/version", v.raised)),
                    !.version_data = IF v.raised THEN JDict(<<>>) ELSE v.val]

\* "# Get nodes", up to node_name.
HostNodes(e, ip, sid, st) ==
    IF st.done \/ st.raised THEN st
    ELSE
    LET n == proxmox_api(e, ip, "/nodes")
        st1 == [st EXCEPT !.calls = Append(@, ApiCall(ip, "/nodes", n.raised))]
    IN  IF n.raised
        THEN [st1 EXCEPT !.done = TRUE,
                 !.errors_list = Append(@,
                     ScanError(sid, ip, "Proxmox-Nodes",
                         "Failed to get nodes from " \o ip \o ": " \o n.val,
                         Traceback(n.val)))]
        ELSE IF ~JTruthy(n.val)
        THEN [st1 EXCEPT !.done = TRUE]
        ELSE LET node == IF IsList(n.val) THEN n.val.v[1] ELSE n.val IN
             IF ~IsDict(node) THEN HostRaise(st1, AttributeError)
             ELSE [st1 EXCEPT !.node = node,
                      !.node_name = PyVal(JGet(node, "node", JStr("unknown")))]

\* "# Host info".  The usage counters (cpu, mem, disk) are copied from the
\* node entry in the same way as uptime and maxcpu and are left out.
HostInfo(ip, st) ==
    IF st.done \/ st.raised THEN st
    ELSE IF ~IsDict(st.version_data) THEN HostRaise(st, AttributeError)
    ELSE [st EXCEPT !.result.host =
             [ip_address |-> ip,
              hostname |-> st.node_name,
              pve_version |-> PyVal(JGet(st.version_data, "version",
                                         JStr("unknown"))),
              node_name |-> st.node_name,
              status |-> PyVal(JGet(st.node, "status", JStr("unknown"))),
              uptime_seconds |-> PyVal(JGet(st.node, "uptime", JNum(0))),
              cpu_count |-> PyVal(JGet(st.node, "maxcpu", JNum(0)))]]

CmdUname == "uname -r"

\* "# Get kernel version via SSH"
HostKernel(e, ip, ssh_config, sid, st) ==
    IF st.done \/ st.raised THEN st
    ELSE The({[st EXCEPT !.errors_list = k.errors_list,
                         !.calls = k.calls,
                         !.result.host =
                             IF Truthy(k.ret)
                             THEN @ @@ ("kernel_version" :> k.ret)
                             ELSE @] :
              k \in {try_ssh_exec(e, ip, ssh_config, CmdUname, st.errors_list,
                                  st.calls, sid, "Proxmox-SSH")}})

\* The vm and lxc entries; the usage counters are left out as for the host.
VmEntry(ip, node_name, res, vm_ip) ==
    [host_ip |-> ip, node_name |-> node_name,
     vmid |-> PyVal(JGet(res, "vmid", JNum(0))),
     name |-> PyVal(JGet(res, "name", JStr(""))),
     status |-> PyVal(JGet(res, "status", JStr(""))),
     tags |-> PyVal(JGet(res, "tags", JStr(""))),
     is_template |-> IF JTruthy(JGet(res, "template", JNum(0))) THEN 1 ELSE 0,
     ip_address |-> vm_ip]

LxcEntry(ip, node_name, res, lxc_ip) ==
    [host_ip |-> ip, node_name |-> node_name,
     vmid |-> PyVal(JGet(res, "vmid", JNum(0))),
     name |-> PyVal(JGet(res, "name", JStr(""))),
     status |-> PyVal(JGet(res, "status", JStr(""))),
     ip_address |-> lxc_ip]

StorageEntry(ip, node_name, res) ==
    [host_ip |-> ip, node_name |-> node_name,
     storage_name |-> PyVal(JGet(res, "storage", JStr(""))),
     storage_type |-> PyVal(JGet(res, "plugintype", JStr(""))),
     content |-> PyVal(JGet(res, "content", JStr(""))),
     total_bytes |-> PyVal(JGet(res, "maxdisk", JNum(0))),
     used_bytes |-> PyVal(JGet(res, "disk", JNum(0))),
     shared |-> IF JTruthy(JGet(res, "shared", JNum(0))) THEN 1 ELSE 0,
     status |-> PyVal(JGet(res, "status", JStr("")))]

\* GuestResource keeping the address of every guest for the guest scan,
\* running or not.
GuestResourceAnyStatus(e, ip, res, vmtype, st) ==
    LET vmid == PyVal(JGet(res, "vmid", JNull))
        after(g) == [st EXCEPT !.calls = g.calls,
                        !.guest_ips = IF Truthy(g.ret)
                                      THEN DictSet(@, vmid, g.ret) ELSE @]
    IN  The({IF g.raised THEN HostRaise(after(g), "Exception")
             ELSE IF vmtype = "qemu"
             THEN [after(g) EXCEPT !.result.vms =
                      Append(@, VmEntry(ip, st.node_name, res, g.ret))]
             ELSE [after(g) EXCEPT !.result.lxcs =
                      Append(@, LxcEntry(ip, st.node_name, res, g.ret))] :
             g \in {get_guest_ip_from_proxmox(e, ip, st.node_name, vmtype,
                                              vmid, st.calls)}})

\* One pass of "for res in resources" for a qemu or lxc entry.
GuestResource(e, ip, res, vmtype, st) ==
    LET vmid == PyVal(JGet(res, "vmid", JNull))
        running == JGet(res, "status", JNull) = JStr("running")
        after(g) == [st EXCEPT !.calls = g.calls,
                        !.guest_ips = IF Truthy(g.ret) /\ running
                                      THEN DictSet(@, vmid, g.ret) ELSE @]
    IN  The({IF g.raised THEN HostRaise(after(g), "Exception")
             ELSE IF vmtype = "qemu"
             THEN [after(g) EXCEPT !.result.vms =
                      Append(@, VmEntry(ip, st.node_name, res, g.ret))]
             ELSE [after(g) EXCEPT !.result.lxcs =
                      Append(@, LxcEntry(ip, st.node_name, res, g.ret))] :
             g \in {get_guest_ip_from_proxmox(e, ip, st.node_name, vmtype,
                                              vmid, st.calls)}})

\* "# Process resources": the loop from items[i] on.
RECURSIVE ResourceLoop(_, _, _, _, _)
ResourceLoop(e, ip, items, i, st) ==
    IF i > Len(items) \/ st.raised THEN st
    ELSE IF ~IsDict(items[i]) THEN HostRaise(st, AttributeError)
    ELSE LET res == items[i]
             res_type == JGet(res, "type", JStr(""))
         IN  The({ResourceLoop(e, ip, items, i + 1, st1) :
                  st1 \in {CASE res_type = JStr("qemu") ->
                                   GuestResource(e, ip, res, "qemu", st)
                             [] res_type = JStr("lxc") ->
                                   GuestResource(e, ip, res, "lxc", st)
                             [] res_type = JStr("storage") ->
                                   [st EXCEPT !.result.storage =
                                       Append(@, StorageEntry(ip, st.node_name,
                                                              res))]
                             [] OTHER -> st}})

\* HostResources giving the host up when the listing fails.
HostResourcesAbort(e, ip, sid, st) ==
    IF st.done \/ st.raised THEN st
    ELSE
    LET r == proxmox_api(e, ip, "/cluster/resources")
        st1 == [st EXCEPT
                   !.calls = Append(@, ApiCall(ip, "/cluster/resources",
                                               r.raised)),
                   !.errors_list =
                       IF r.raised
                       THEN Append(@, ScanError(sid, ip, "Proxmox-Resources",
                                "Failed to get resources from " \o ip \o ": "
                                    \o r.val,
                                Traceback(r.val)))
                       ELSE @]
    IN  IF r.raised THEN [st1 EXCEPT !.done = TRUE]
        ELSE IF IsList(r.val) THEN ResourceLoop(e, ip, r.val.v, 1, st1)
        ELSE IF r.val.t \in {"dict", "str"} /\ Len(r.val.v) = 0
        THEN st1
        ELSE IF r.val.t \in {"dict", "str"}
        THEN HostRaise(st1, AttributeError)
        ELSE HostRaise(st1, TypeErrorNotIterable)

\* HostResources swallowing a failed listing without a ScanError.
HostResourcesSilent(e, ip, sid, st) ==
    IF st.done \/ st.raised THEN st
    ELSE
    LET r == proxmox_api(e, ip, "/cluster/resources")
        st1 == [st EXCEPT
                   !.calls = Append(@, ApiCall(ip, "/cluster/resources",
                                               r.raised))]
        resources == IF r.raised THEN JList(<<>>) ELSE r.val
    IN  IF IsList(resources) THEN ResourceLoop(e, ip, resources.v, 1, st1)
        ELSE IF resources.t \in {"dict", "str"} /\ Len(resources.v) = 0
        THEN st1
        ELSE IF resources.t \in {"dict", "str"}
        THEN HostRaise(st1, AttributeError)
        ELSE HostRaise(st1, TypeErrorNotIterable)

\* "# Get cluster resources" and "# Process resources"
HostResources(e, ip, sid, st) ==
    IF st.done \/ st.raised THEN st
    ELSE
    LET r == proxmox_api(e, ip, "/cluster/resources")
        st1 == [st EXCEPT
                   !.calls = Append(@, ApiCall(ip, "/cluster/resources",
                                               r.raised)),
                   !.errors_list =
                       IF r.raised
                       THEN Append(@, ScanError(sid, ip, "Proxmox-Resources",
                                "Failed to get resources from " \o ip \o ": "
                                    \o r.val,
                                Traceback(r.val)))
                       ELSE @]
        resources == IF r.raised THEN JList(<<>>) ELSE r.val
    IN  IF IsList(resources) THEN ResourceLoop(e, ip, resources.v, 1, st1)
        ELSE IF resources.t \in {"dict", "str"} /\ Len(resources.v) = 0
        THEN st1
        ELSE IF resources.t \in {"dict", "str"}
        THEN HostRaise(st1, AttributeError)
        ELSE HostRaise(st1, TypeErrorNotIterable)

NetworkEntry(ip, node_name, iface) ==
    [host_ip |-> ip, host_name |-> node_name,
     interface_name |-> PyVal(JGet(iface, "iface", JStr(""))),
     ip_address |-> PyVal(JGet(iface, "address",
                               JGet(iface, "cidr", JStr("")))),
     type |-> PyVal(JGet(iface, "type", JStr(""))),
     active |-> IF JTruthy(JGet(iface, "active", JNum(0))) THEN 1 ELSE 0,
     bridge_ports |-> PyVal(JGet(iface, "bridge_ports", JStr("")))]

\* "for iface in net_data" from ifaces[i] on; the loop runs inside the try
\* and appends to result['network'] as it goes.
RECURSIVE NetworkLoop(_, _, _, _, _)
NetworkLoop(ip, node_name, ifaces, i, entries) ==
    IF i > Len(ifaces) THEN [raised |-> FALSE, val |-> None, entries |-> entries]
    ELSE IF ~IsDict(ifaces[i])
    THEN [raised |-> TRUE, val |-> AttributeError, entries |-> entries]
    ELSE NetworkLoop(ip, node_name, ifaces, i + 1,
                     Append(entries, NetworkEntry(ip, node_name, ifaces[i])))

\* "if isinstance(net_data, list)": any other payload is passed over.
NetworkItems(ip, node_name, net_data) ==
    IF IsList(net_data) THEN NetworkLoop(ip, node_name, net_data.v, 1, <<>>)
    ELSE [raised |-> FALSE, val |-> None, entries |-> <<>>]

\* "# Network info"
HostNetwork(e, ip, sid, scan_options, st) ==
    IF st.done \/ st.raised \/ ~OptGet(scan_options, "scan_network", TRUE)
    THEN st
    ELSE
    LET endpoint == "/nodes/" \o st.node_name \o "/network"
        n == proxmox_api(e, ip, endpoint)
        st1 == [st EXCEPT !.calls = Append(@, ApiCall(ip, endpoint, n.raised))]
        items == IF n.raised THEN [raised |-> TRUE, val |-> n.val,
                                   entries |-> <<>>]
                 ELSE NetworkItems(ip, st.node_name, n.val)
    IN  [st1 EXCEPT
            !.result.network = @ \o items.entries,
            !.errors_list =
                IF items.raised
                THEN Append(@, ScanError(sid, ip, "Network",
                         "Failed to get network info from " \o ip \o ": "
                             \o items.val,
                         Traceback(items.val)))
                ELSE @]

\* guest_ip in skip_ips
InList(x, list) == \E i \in 1..Len(list) : list[i] = x

\* The locals after scan_docker_on_host did d: its entries extend
\* result['docker'], or its exception leaves the function.
AfterDocker(st, d) ==
    LET st1 == [st EXCEPT !.errors_list = d.errors_list, !.calls = d.calls]
    IN  IF d.raised THEN HostRaise(st1, d.exc)
        ELSE [st1 EXCEPT !.result.docker = @ \o d.ret]

\* "for vmid, guest_ip in guest_ips.items()" from guest_ips[i] on.
RECURSIVE GuestDockerLoop(_, _, _, _, _, _)
GuestDockerLoop(e, ssh_config, sid, skip_ips, i, st) ==
    IF i > Len(st.guest_ips) \/ st.raised THEN st
    ELSE LET guest_ip == st.guest_ips[i][2] IN
         IF InList(guest_ip, skip_ips)
         THEN GuestDockerLoop(e, ssh_config, sid, skip_ips, i + 1, st)
         ELSE The({GuestDockerLoop(e, ssh_config, sid, skip_ips, i + 1,
                                   AfterDocker(st, d)) :
                   d \in {scan_docker_on_host(e, guest_ip, ssh_config,
                                              st.errors_list, st.calls, sid)}})

\* "# Docker on Proxmox host itself" and "# Docker on VMs/LXCs"
HostDocker(e, ip, ssh_config, sid, scan_options, st) ==
    IF st.done \/ st.raised \/ ~OptGet(scan_options, "scan_docker", TRUE)
    THEN st
    ELSE
    The({IF ~OptGet(scan_options, "ssh_into_guests", TRUE) THEN st1
         ELSE GuestDockerLoop(e, ssh_config, sid,
                  OptGet(scan_options, "skip_docker_scan", <<>>), 1, st1) :
         st1 \in {AfterDocker(st,
                      scan_docker_on_host(e, ip, ssh_config, st.errors_list,
                                          st.calls, sid))}})

\* The steps of scan_proxmox_host in the order of the code.
HostStep(e, host_cfg, ssh_config, sid, scan_options, n, st) ==
    CASE n = 1 -> HostAuthenticate(e, host_cfg.ip, sid, st)
      [] n = 2 -> HostVersion(e, host_cfg.ip, st)
      [] n = 3 -> HostNodes(e, host_cfg.ip, sid, st)
      [] n = 4 -> HostInfo(host_cfg.ip, st)
      [] n = 5 -> HostKernel(e, host_cfg.ip, ssh_config, sid, st)
      [] n = 6 -> HostResources(e, host_cfg.ip, sid, st)
      [] n = 7 -> HostNetwork(e, host_cfg.ip, sid, scan_options, st)
      [] n = 8 -> HostDocker(e, host_cfg.ip, ssh_config, sid, scan_options, st)

\* The locals of scan_proxmox_host after its first n steps.
RECURSIVE HostSteps(_, _, _, _, _, _, _, _)
HostSteps(e, host_cfg, ssh_config, sid, errs, log, scan_options, n) ==
    IF n = 0 THEN HostStart(errs, log)
    ELSE The({HostStep(e, host_cfg, ssh_config, sid, scan_options, n, st) :
              st \in {HostSteps(e, host_cfg, ssh_config, sid, errs, log,
                                scan_options, n - 1)}})

\* scan_proxmox_host(host_cfg, ssh_config, scan_id, errors_list,
\* scan_options): the result dict, or the exception that left the function,
\* with the error log and the call log as the function leaves them.
scan_proxmox_host(e, host_cfg, ssh_config, sid, errs, log, scan_options) ==
    The({[raised |-> st.raised, exc |-> st.exc, result |-> st.result,
          errors_list |-> st.errors_list, calls |-> st.calls] :
         st \in {HostSteps(e, host_cfg, ssh_config, sid, errs, log,
                           scan_options, 8)}})

-----------------------------------------------------------------------------
(* scan_homeassistant *)

\* s.replace(old, '') from position i on.
RECURSIVE Remove(_, _, _)
Remove(s, old, i) ==
    IF i > Len(s) THEN ""
    ELSE IF i + Len(old) - 1 <= Len(s) /\ SubSeq(s, i, i + Len(old) - 1) = old
    THEN Remove(s, old, i + Len(old))
    ELSE SubSeq(s, i, i) \o Remove(s, old, i + 1)

HubCall(ip, path, raised) ==
    [op |-> "requests.get", ip |-> ip, path |-> path, raised |-> raised]

\* requests.get, raise_for_status and resp.json() on one path of the hub.
hub_get(e, ip, path) == e.hub[<<ip, path>>]

KeyError == "KeyError"

TypeErrorSubscript == "TypeError: object is not subscriptable"

\* "updates = [s for s in states if s['entity_id'].startswith('update.')]"
\* from states[i] on.
RECURSIVE UpdateEntities(_, _, _)
UpdateEntities(states, i, updates) ==
    IF i > Len(states) THEN [raised |-> FALSE, exc |-> None, val |-> updates]
    ELSE LET s == states[i] IN
         IF ~IsDict(s) /\ s.t # "str"
         THEN [raised |-> TRUE, exc |-> TypeErrorSubscript, val |-> <<>>]
         ELSE IF ~IsDict(s)
         THEN [raised |-> TRUE, exc |-> "TypeError: string indices",
               val |-> <<>>]
         ELSE IF ~HasKey(s, "entity_id")
         THEN [raised |-> TRUE, exc |-> KeyError, val |-> <<>>]
         ELSE IF JGet(s, "entity_id", JNull).t # "str"
         THEN [raised |-> TRUE, exc |-> AttributeError, val |-> <<>>]
         ELSE UpdateEntities(states, i + 1,
                  IF StartsWith(JGet(s, "entity_id", JNull).v, "update.")
                  THEN Append(updates, s) ELSE updates)

\* AddonEntry putting the latest version in every status text.
AddonEntryAlwaysLatest(ip, ha_name, u, attrs) ==
    LET entity_id == JGet(u, "entity_id", JNull).v
        title == PyVal(JGet(attrs, "title", JNull))
        installed_ver == PyVal(JGet(attrs, "installed_version", JStr("?")))
        latest_ver == PyVal(JGet(attrs, "latest_version", JStr("?")))
        has_update == JGet(u, "state", JNull) = JStr("on")
        state_str == IF JGet(u, "state", JNull) = JStr("unavailable")
                     THEN "unavailable"
                     ELSE IF has_update THEN "update_available"
                     ELSE "running"
    IN  [host_ip |-> ip,
         host_name |-> ha_name \o " (HAOS)",
         container_id |-> entity_id,
         name |-> title,
         image |-> "ha-addon/"
                   \o Remove(Remove(entity_id, "update.", 1), "_update", 1),
         status |-> IF Truthy(latest_ver)
                    THEN "v" \o installed_ver \o " -> " \o latest_ver
                    ELSE "v" \o installed_ver,
         state |-> state_str,
         ports |-> "", created_at |-> "", networks |-> "hassio",
         mounts |-> ""]

\* The WorkloadRecord of one kept update entity.
AddonEntry(ip, ha_name, u, attrs) ==
    LET entity_id == JGet(u, "entity_id", JNull).v
        title == PyVal(JGet(attrs, "title", JNull))
        installed_ver == PyVal(JGet(attrs, "installed_version", JStr("?")))
        latest_ver == PyVal(JGet(attrs, "latest_version", JStr("?")))
        has_update == JGet(u, "state", JNull) = JStr("on")
        state_str == IF JGet(u, "state", JNull) = JStr("unavailable")
                     THEN "unavailable"
                     ELSE IF has_update THEN "update_available"
                     ELSE "running"
    IN  [host_ip |-> ip,
         host_name |-> ha_name \o " (HAOS)",
         container_id |-> entity_id,
         name |-> title,
         image |-> "ha-addon/"
                   \o Remove(Remove(entity_id, "update.", 1), "_update", 1),
         status |-> IF has_update /\ Truthy(latest_ver)
                    THEN "v" \o installed_ver \o " -> " \o latest_ver
                    ELSE "v" \o installed_ver,
         state |-> state_str,
         ports |-> "", created_at |-> "", networks |-> "hassio",
         mounts |-> ""]

\* AddonLoop without the firmware filter.
RECURSIVE AddonLoopKeepsFirmware(_, _, _, _, _)
AddonLoopKeepsFirmware(ip, ha_name, updates, i, docker) ==
    IF i > Len(updates) THEN [raised |-> FALSE, exc |-> None, docker |-> docker]
    ELSE
    LET u == updates[i]
        attrs == JGet(u, "attributes", JDict(<<>>))
        entity_id == JGet(u, "entity_id", JNull).v
    IN  IF ~IsDict(attrs)
        THEN [raised |-> TRUE, exc |-> AttributeError, docker |-> docker]
        ELSE IF \/ ~JTruthy(JGet(attrs, "title", JNull))
                \/ ~Contains(entity_id, "_update")
        THEN AddonLoopKeepsFirmware(ip, ha_name, updates, i + 1, docker)
        ELSE IF ~HasKey(u, "state")
        THEN [raised |-> TRUE, exc |-> KeyError, docker |-> docker]
        ELSE AddonLoopKeepsFirmware(ip, ha_name, updates, i + 1,
                       Append(docker, AddonEntry(ip, ha_name, u, attrs)))

\* "for u in updates" from updates[i] on.
RECURSIVE AddonLoop(_, _, _, _, _)
AddonLoop(ip, ha_name, updates, i, docker) ==
    IF i > Len(updates) THEN [raised |-> FALSE, exc |-> None, docker |-> docker]
    ELSE
    LET u == updates[i]
        attrs == JGet(u, "attributes", JDict(<<>>))
        entity_id == JGet(u, "entity_id", JNull).v
    IN  IF ~IsDict(attrs)
        THEN [raised |-> TRUE, exc |-> AttributeError, docker |-> docker]
        ELSE IF \/ ~JTruthy(JGet(attrs, "title", JNull))
                \/ Contains(entity_id, "_firmware")
                \/ ~Contains(entity_id, "_update")
        THEN AddonLoop(ip, ha_name, updates, i + 1, docker)
        ELSE IF ~HasKey(u, "state")
        THEN [raised |-> TRUE, exc |-> KeyError, docker |-> docker]
        ELSE AddonLoop(ip, ha_name, updates, i + 1,
                       Append(docker, AddonEntry(ip, ha_name, u, attrs)))

HubResult(docker) == [docker |-> docker, ha_info |-> None]

\* scan_homeassistant logging both failed calls under one component.
scan_homeassistant_one_tag(e, ha_cfg, sid, errs, log) ==
    LET ip == ha_cfg.ip
        c == hub_get(e, ip, "/api/config")
        log1 == Append(log, HubCall(ip, "/api/config", c.raised))
    IN
    IF c.raised
    THEN [raised |-> FALSE, exc |-> None, result |-> HubResult(<<>>),
          errors_list |-> Append(errs,
              ScanError(sid, ip, "HomeAssistant-API",
                  "HA API config failed on " \o ip \o ": " \o c.val,
                  Traceback(c.val))),
          calls |-> log1]
    ELSE
    LET s == hub_get(e, ip, "/api/states")
        log2 == Append(log1, HubCall(ip, "/api/states", s.raised))
    IN
    IF s.raised
    THEN [raised |-> FALSE, exc |-> None, result |-> HubResult(<<>>),
          errors_list |-> Append(errs,
              ScanError(sid, ip, "HomeAssistant-API",
                  "HA API states failed on " \o ip \o ": " \o s.val,
                  Traceback(s.val))),
          calls |-> log2]
    ELSE
    LET escaped(exc, docker) ==
            [raised |-> TRUE, exc |-> exc, result |-> HubResult(docker),
             errors_list |-> errs, calls |-> log2]
    IN
    IF ~IsDict(c.val) THEN escaped(AttributeError, <<>>)
    ELSE IF s.val.t \in {"null", "num"}
    THEN escaped(TypeErrorNotIterable, <<>>)
    ELSE IF s.val.t = "str" /\ s.val.v # ""
    THEN escaped("TypeError: string indices", <<>>)
    ELSE
    LET ha_name == PyVal(JGet(c.val, "location_name",
                              JStr("Home Assistant")))
        items == IF IsList(s.val) THEN s.val.v
                 ELSE IF IsDict(s.val)
                 THEN [i \in 1..Len(s.val.v) |-> JStr(s.val.v[i][1])]
                 ELSE <<>>
        updates == UpdateEntities(items, 1, <<>>)
    IN
    IF updates.raised THEN escaped(updates.exc, <<>>)
    ELSE LET r == AddonLoop(ip, ha_name, updates.val, 1, <<>>) IN
         IF r.raised THEN escaped(r.exc, r.docker)
         ELSE [raised |-> FALSE, exc |-> None, result |-> HubResult(r.docker),
               errors_list |-> errs, calls |-> log2]

\* scan_homeassistant(ha_cfg, scan_id, errors_list): the result dict (or the
\* exception raised, with result as it stood), the error log and the call
\* log.
scan_homeassistant(e, ha_cfg, sid, errs, log) ==
    LET ip == ha_cfg.ip
        c == hub_get(e, ip, "/api/config")
        log1 == Append(log, HubCall(ip, "/api/config", c.raised))
    IN
    IF c.raised
    THEN [raised |-> FALSE, exc |-> None, result |-> HubResult(<<>>),
          errors_list |-> Append(errs,
              ScanError(sid, ip, "HomeAssistant-API",
                  "HA API config failed on " \o ip \o ": " \o c.val,
                  Traceback(c.val))),
          calls |-> log1]
    ELSE
    LET s == hub_get(e, ip, "/api/states")
        log2 == Append(log1, HubCall(ip, "/api/states", s.raised))
    IN
    IF s.raised
    THEN [raised |-> FALSE, exc |-> None, result |-> HubResult(<<>>),
          errors_list |-> Append(errs,
              ScanError(sid, ip, "HomeAssistant-States",
                  "HA API states failed on " \o ip \o ": " \o s.val,
                  Traceback(s.val))),
          calls |-> log2]
    ELSE
    LET escaped(exc, docker) ==
            [raised |-> TRUE, exc |-> exc, result |-> HubResult(docker),
             errors_list |-> errs, calls |-> log2]
    IN
    IF ~IsDict(c.val) THEN escaped(AttributeError, <<>>)
    ELSE IF s.val.t \in {"null", "num"}
    THEN escaped(TypeErrorNotIterable, <<>>)
    ELSE IF s.val.t = "str" /\ s.val.v # ""
    THEN escaped("TypeError: string indices", <<>>)
    ELSE
    LET ha_name == PyVal(JGet(c.val, "location_name",
                              JStr("Home Assistant")))
        items == IF IsList(s.val) THEN s.val.v
                 ELSE IF IsDict(s.val)
                 THEN [i \in 1..Len(s.val.v) |-> JStr(s.val.v[i][1])]
                 ELSE <<>>
        updates == UpdateEntities(items, 1, <<>>)
    IN
    IF updates.raised THEN escaped(updates.exc, <<>>)
    ELSE LET r == AddonLoop(ip, ha_name, updates.val, 1, <<>>) IN
         IF r.raised THEN escaped(r.exc, r.docker)
         ELSE [raised |-> FALSE, exc |-> None, result |-> HubResult(r.docker),
               errors_list |-> errs, calls |-> log2]

-----------------------------------------------------------------------------
(* The sink's database, as far as the scanner reads and writes it *)

\* The tables the scanner writes, each a sequence of rows in insertion
\* order, and the next AUTO_INCREMENT id of scan_runs.
EmptyDb ==
    [next_id |-> 1, scan_runs |-> <<>>, proxmox_hosts |-> <<>>,
     virtual_machines |-> <<>>, lxc_containers |-> <<>>,
     docker_containers |-> <<>>, storage_info |-> <<>>,
     network_info |-> <<>>, scan_errors |-> <<>>]

\* RunRow created as completed.
RunRowCompleted(id) == [id |-> id, status |-> "completed"]

\* "INSERT INTO scan_runs (started_at, status) VALUES (NOW(), 'running')":
\* the row, without the columns the final UPDATE sets.
RunRow(id) == [id |-> id, status |-> "running"]

\* The database after the INSERT; cursor.lastrowid is the id of the new row.
InsertRun(database) ==
    [database EXCEPT !.scan_runs = Append(@, RunRow(database.next_id)),
                     !.next_id = @ + 1]

\* The row an INSERT writes for one entry of the result.
Row(sid, entry) == ("scan_id" :> sid) @@ entry

\* The row of the host dict: host.get('kernel_version', '').
HostRow(sid, host) == Row(sid, host) @@ ("kernel_version" :> "")

\* Row(sid, _) over a list of entries.
Rows(sid, entries) == [i \in 1..Len(entries) |-> Row(sid, entries[i])]

\* "for result in all_results" of save_to_database from all_results[i] on.
RECURSIVE SaveResults(_, _, _, _, _)
SaveResults(database, sid, results, i, totals) ==
    IF i > Len(results) THEN [db |-> database, totals |-> totals]
    ELSE
    LET result == results[i] IN
    SaveResults(
        [database EXCEPT
            !.proxmox_hosts = IF result.host # NoneRec
                              THEN Append(@, HostRow(sid, result.host))
                              ELSE @,
            !.virtual_machines = @ \o Rows(sid, result.vms),
            !.lxc_containers = @ \o Rows(sid, result.lxcs),
            !.docker_containers = @ \o Rows(sid, result.docker),
            !.storage_info = @ \o Rows(sid, result.storage),
            !.network_info = @ \o Rows(sid, result.network)],
        sid, results, i + 1,
        [total_vms |-> totals.total_vms + Len(result.vms),
         total_lxcs |-> totals.total_lxcs + Len(result.lxcs),
         total_docker |-> totals.total_docker + Len(result.docker)])

\* save_to_database leaving out the errors the sink already holds from an
\* earlier run.
save_to_database_new_errors_only(database, sid, results, errs) ==
    LET saved == SaveResults(database, sid, results, 1,
                     [total_vms |-> 0, total_lxcs |-> 0, total_docker |-> 0])
        known(er) == \E k \in 1..Len(database.scan_errors) :
                        [database.scan_errors[k] EXCEPT !.scan_id = sid] = er
    IN  [db |-> [saved.db EXCEPT !.scan_errors =
                    @ \o SelectSeq(errs, LAMBDA er : ~known(er))],
         totals |-> saved.totals]

\* save_to_database(db, scan_id, all_results, errors_list): the database
\* afterwards and the three totals returned.  Every error keeps the scan_id
\* it carries.
save_to_database(database, sid, results, errs) ==
    LET saved == SaveResults(database, sid, results, 1,
                     [total_vms |-> 0, total_lxcs |-> 0, total_docker |-> 0])
    IN  [db |-> [saved.db EXCEPT !.scan_errors = @ \o errs],
         totals |-> saved.totals]

\* "hosts_scanned = sum(1 for r in all_results if r.get('host'))"
HostsScanned(results) ==
    Cardinality({i \in 1..Len(results) : results[i].host # NoneRec})

\* FinalizeRun marking a run with errors as failed.
FinalizeRunFailedOnErrors(database, sid, results, totals, errs) ==
    LET runs == database.scan_runs IN
    [database EXCEPT !.scan_runs =
        [i \in 1..Len(runs) |->
            IF runs[i].id = sid
            THEN [id |-> sid,
                  status |-> IF errs = <<>> THEN "completed" ELSE "failed",
                  hosts_scanned |-> HostsScanned(results),
                  vms_found |-> totals.total_vms,
                  lxc_found |-> totals.total_lxcs,
                  docker_found |-> totals.total_docker,
                  errors_count |-> Len(errs)]
            ELSE runs[i]]]

\* "UPDATE scan_runs SET ... WHERE id = %s"
FinalizeRun(database, sid, results, totals, errs) ==
    LET runs == database.scan_runs IN
    [database EXCEPT !.scan_runs =
        [i \in 1..Len(runs) |->
            IF runs[i].id = sid
            THEN [id |-> sid, status |-> "completed",
                  hosts_scanned |-> HostsScanned(results),
                  vms_found |-> totals.total_vms,
                  lxc_found |-> totals.total_lxcs,
                  docker_found |-> totals.total_docker,
                  errors_count |-> Len(errs)]
            ELSE runs[i]]]

\* The runs whose id is not in ids, in order.
RECURSIVE SelectRuns(_, _)
SelectRuns(runs, ids) ==
    IF runs = <<>> THEN <<>>
    ELSE IF Head(runs).id \in ids
    THEN SelectRuns(Tail(runs), ids)
    ELSE <<Head(runs)>> \o SelectRuns(Tail(runs), ids)

\* cleanup_old_scans keeping the oldest runs instead of the newest.
cleanup_old_scans_keeps_oldest(database, max_scans) ==
    LET ids == {database.scan_runs[i].id : i \in 1..Len(database.scan_runs)}
        old_ids == {id \in ids :
                       Cardinality({other \in ids : other < id}) >= max_scans}
    IN  [database EXCEPT !.scan_runs = SelectRuns(@, old_ids)]

\* cleanup_old_scans(db, max_scans): the ids after the max_scans highest are
\* deleted from scan_runs.  The function deletes from no other table.
cleanup_old_scans(database, max_scans) ==
    LET ids == {database.scan_runs[i].id : i \in 1..Len(database.scan_runs)}
        old_ids == {id \in ids :
                       Cardinality({other \in ids : other > id}) >= max_scans}
    IN  [database EXCEPT !.scan_runs = SelectRuns(@, old_ids)]

DefaultMaxOldScans == 50

\* An error already in the log when a function is entered.
PriorError ==
    ScanError(1, "192.0.2.9", "Network",
              "Failed to get network info from 192.0.2.9: timed out",
              Traceback("timed out"))

-----------------------------------------------------------------------------
(* main *)

\* A result dict that holds docker entries only.
DockerOnlyResult(docker) ==
    [host |-> NoneRec, vms |-> <<>>, lxcs |-> <<>>, docker |-> docker,
     storage |-> <<>>, network |-> <<>>]

\* "scan_options = config.get('scan_options', {})" with the two keys main
\* sets on it.
ScanOptions(config) ==
    [skip_docker_scan |-> OptGet(config, "skip_docker_scan", <<>>),
     guest_labels |-> OptGet(config, "guest_labels", <<>>)]
        @@ OptGet(config, "scan_options", <<>>)

\* HostTry without its except clause.
HostTryNoExcept(r, sid, host_cfg, results) ==
    IF r.raised
    THEN [raised |-> TRUE, all_results |-> results,
          errors_list |-> r.errors_list]
    ELSE [raised |-> FALSE, all_results |-> Append(results, r.result),
          errors_list |-> r.errors_list]

\* HostTry starting the log over when the host scan raised.
HostTryForgetsErrors(r, sid, host_cfg, results) ==
    IF r.raised
    THEN [raised |-> FALSE, all_results |-> results,
          errors_list |-> <<ScanError(sid, host_cfg.ip, "Proxmox-Scan",
                  "Fatal error scanning " \o host_cfg.ip \o ": " \o r.exc,
                  Traceback(r.exc))>>]
    ELSE [raised |-> FALSE, all_results |-> Append(results, r.result),
          errors_list |-> r.errors_list]

\* One pass of "for host_cfg in config['proxmox_hosts']", r being what
\* scan_proxmox_host did: the try and its except.  raised: an exception
\* leaves main.
HostTry(r, sid, host_cfg, results) ==
    IF r.raised
    THEN [raised |-> FALSE, all_results |-> results,
          errors_list |-> Append(r.errors_list,
              ScanError(sid, host_cfg.ip, "Proxmox-Scan",
                  "Fatal error scanning " \o host_cfg.ip \o ": " \o r.exc,
                  Traceback(r.exc)))]
    ELSE [raised |-> FALSE, all_results |-> Append(results, r.result),
          errors_list |-> r.errors_list]

\* One pass of "for ha_cfg in config.get('homeassistant', [])".
HubTry(r, sid, ha_cfg, results) ==
    IF r.raised
    THEN [raised |-> FALSE, all_results |-> results,
          errors_list |-> Append(r.errors_list,
              ScanError(sid, ha_cfg.ip, "HomeAssistant",
                  "HA scan failed: " \o r.exc, Traceback(r.exc)))]
    ELSE [raised |-> FALSE,
          all_results |-> Append(results, DockerOnlyResult(r.result.docker)),
          errors_list |-> r.errors_list]

LocalIp == "192.168.178.89"

LocalCall(command, raised) ==
    [op |-> "subprocess.run", ip |-> "127.0.0.1", command |-> command,
     raised |-> raised]

\* The loop over the local listing's lines from lines[i] on: one result per
\* container; an exception other than JSONDecodeError leaves the loop.
RECURSIVE LocalLines(_, _, _, _)
LocalLines(lines, i, hostname, results) ==
    IF i > Len(lines) THEN [raised |-> FALSE, exc |-> None, results |-> results]
    ELSE IF Strip(lines[i]) = ""
    THEN LocalLines(lines, i + 1, hostname, results)
    ELSE LET c == JsonLoads(Strip(lines[i])) IN
         CASE c.kind = "JSONDecodeError" ->
                 LocalLines(lines, i + 1, hostname, results)
           [] c.kind = "dict" ->
                 LocalLines(lines, i + 1, hostname,
                     Append(results, DockerOnlyResult(
                         <<ContainerEntry(LocalIp, hostname, c.val)>>)))
           [] OTHER ->
                 [raised |-> TRUE, exc |-> AttributeErrorGet,
                  results |-> results]

\* "# Also scan Docker on localhost": l is what the two subprocess runs and
\* socket.gethostname() do on the scanner's own machine.
LocalDocker(l, sid, errs, log, results) ==
    LET failed(exc, log1, results1) ==
            [all_results |-> results1, calls |-> log1,
             errors_list |-> Append(errs,
                 ScanError(sid, "127.0.0.1", "Docker-Local",
                     "Local Docker scan failed: " \o exc, Traceback(exc)))]
        log1 == Append(log, LocalCall("docker info", l.check.raised))
    IN
    IF l.check.raised THEN failed(l.check.val, log1, results)
    ELSE IF l.check.returncode # 0
    THEN [all_results |-> results, calls |-> log1, errors_list |-> errs]
    ELSE
    LET log2 == Append(log1, LocalCall("docker ps", l.ps.raised)) IN
    IF l.ps.raised THEN failed(l.ps.val, log2, results)
    ELSE IF Strip(l.ps.stdout) = ""
    THEN [all_results |-> results, calls |-> log2, errors_list |-> errs]
    ELSE LET r == LocalLines(Split(Strip(l.ps.stdout), "\n"), 1, l.hostname,
                             results)
         IN  IF r.raised THEN failed(r.exc, log2, r.results)
             ELSE [all_results |-> r.results, calls |-> log2,
                   errors_list |-> errs]

-----------------------------------------------------------------------------
(* try_ssh_exec on its own: every credential configuration against every   *)
(* combination of per-user outcomes                                        *)

HostIp == "10.0.0.1"

UserNames == {"root", "admin"}

SshConfigs ==
    [username : UserNames, alt_username : {None, ""} \cup UserNames,
     password : {"secret"}]

\* What one ssh_exec attempt can do: raise, or print something.
SshFailures ==
    {[raised |-> TRUE, val |-> "Authentication failed."],
     [raised |-> TRUE, val |-> "timed out"]}

UnameAnswers ==
    SshFailures \cup
    {[raised |-> FALSE, val |-> ""],
     [raised |-> FALSE, val |-> " 6.8.12-pve\n"]}

SshEnvs ==
    {[ip |-> HostIp, ssh_config |-> c, command |-> CmdUname,
      component |-> "Proxmox-SSH", errors0 |-> e0,
      ssh |-> [k \in {<<HostIp, CmdUname, u>> : u \in UserNames}
                 |-> IF k[3] = "root" THEN a ELSE b]] :
        c \in SshConfigs, a \in UnameAnswers, b \in UnameAnswers,
        e0 \in {<<>>, <<PriorError>>}}

InitSsh ==
    /\ pc = "try_ssh_exec"
    /\ env \in SshEnvs
    /\ ret = None
    /\ errors_list = env.errors0
    /\ all_results = <<>>
    /\ calls = <<>>
    /\ db = EmptyDb
    /\ scan_id = 1
    /\ outcomes = <<>>

CallTrySshExec ==
    /\ pc = "try_ssh_exec"
    /\ LET r == try_ssh_exec(env, env.ip, env.ssh_config, env.command,
                             errors_list, calls, scan_id, env.component)
       IN  /\ ret' = r.ret
           /\ errors_list' = r.errors_list
           /\ calls' = r.calls
    /\ pc' = "returned"
    /\ UNCHANGED <<env, all_results, db, scan_id, outcomes>>

NextSsh == CallTrySshExec

SpecSsh == InitSsh /\ [][NextSsh]_vars

\* The credential candidates of a configuration: the primary username, then
\* the alternate one when it is configured and is another name.
Candidates(ssh_config) ==
    IF ssh_config.alt_username \notin {None, "", ssh_config.username}
    THEN <<ssh_config.username, ssh_config.alt_username>>
    ELSE <<ssh_config.username>>

\* What the remote machine does for candidate i of the harness's command.
AnswerTo(i) == env.ssh[<<env.ip, env.command, Candidates(env.ssh_config)[i]>>]

AllCandidatesFail ==
    \A i \in 1..Len(Candidates(env.ssh_config)) : AnswerTo(i).raised

\* C4: when all N credential candidates fail for a command, try_ssh_exec
\* appends exactly one ScanError to the log (whatever N), whose message names
\* every attempted username and the failure of the last attempt, and it
\* returns None.
C4_OneAggregatedError ==
    (pc = "returned" /\ AllCandidatesFail) =>
        LET users == Candidates(env.ssh_config)
            n == Len(errors_list)
        IN  /\ ret = None
            /\ n = Len(env.errors0) + 1
            /\ SubSeq(errors_list, 1, n - 1) = env.errors0
            /\ errors_list[n].scan_id = scan_id
            /\ errors_list[n].host_ip = env.ip
            /\ errors_list[n].component = env.component
            /\ \A i \in 1..Len(users) :
                   Contains(errors_list[n].error_message, users[i])
            /\ Contains(errors_list[n].error_message,
                        AnswerTo(Len(users)).val)

\* C4 witness: two candidates were tried, both failed in different ways,
\* and the call returned with one more error in the log.
C4_Witness ==
    /\ pc = "returned"
    /\ Len(Candidates(env.ssh_config)) = 2
    /\ AllCandidatesFail
    /\ AnswerTo(1).val # AnswerTo(2).val
    /\ Len(calls) = 2
    /\ Len(errors_list) = Len(env.errors0) + 1

\* C5: the candidates are attempted in order, primary first and the
\* alternate only when configured and different; the attempts stop at the
\* first one that succeeds, whose stripped output is returned with the error
\* log untouched, also when an earlier candidate failed.
C5_FirstSuccessWins ==
    pc = "returned" =>
        LET users == Candidates(env.ssh_config)
            good == {i \in 1..Len(users) : ~AnswerTo(i).raised}
            last == IF good = {} THEN Len(users)
                    ELSE CHOOSE i \in good : \A j \in good : i <= j
        IN  /\ calls = [i \in 1..last |->
                           SshCall(env.ip, users[i], env.command,
                                   i \notin good)]
            /\ good # {} =>
                   /\ ret = Strip(AnswerTo(last).val)
                   /\ errors_list = env.errors0

\* C5 witness: the primary failed, the alternate succeeded with output.
C5_Witness ==
    /\ pc = "returned"
    /\ Len(Candidates(env.ssh_config)) = 2
    /\ AnswerTo(1).raised
    /\ ~AnswerTo(2).raised
    /\ ret = "6.8.12-pve"
    /\ Len(calls) = 2
    /\ errors_list = env.errors0

-----------------------------------------------------------------------------
(* scan_docker_on_host on its own: every presence-check answer against     *)
(* every listing of up to MaxLines lines                                   *)

MaxLines == 3

ListingLines == {LineA1, LineB2, LineNotJson, LineNull, " "}

\* The raw stdout of the listing command: lines, each ended by a newline.
RECURSIVE Unlines(_)
Unlines(lines) ==
    IF Len(lines) = 0 THEN ""
    ELSE lines[1] \o "\n" \o Unlines(Tail(lines))

Listings == UNION {[1..n -> ListingLines] : n \in 0..MaxLines}

SshTimeout == [raised |-> TRUE, val |-> "timed out"]

DockerCheckAnswers ==
    {SshTimeout,
     [raised |-> FALSE, val |-> "NO_DOCKER\n"],
     [raised |-> FALSE, val |-> ""],
     [raised |-> FALSE, val |-> "/usr/bin/docker\nNO_DOCKER\n"],
     [raised |-> FALSE, val |-> "/usr/bin/docker\n24.0.7\n"]}

DockerPsAnswers ==
    {SshTimeout} \cup {[raised |-> FALSE, val |-> Unlines(l)] : l \in Listings}

HostnameAnswers ==
    {SshTimeout,
     [raised |-> FALSE, val |-> "pve1\n"],
     [raised |-> FALSE, val |-> ""]}

\* The remote machine at ip: what each command does, for whichever user.
Remote(ip, chk, ps, hn) ==
    [k \in {ip} \X {CmdDockerCheck, CmdDockerPs, CmdHostname} \X UserNames |->
        CASE k[2] = CmdDockerCheck -> chk
          [] k[2] = CmdDockerPs -> ps
          [] OTHER -> hn]

DockerEnvs ==
    {[ip |-> HostIp, ssh_config |-> c, errors0 |-> e0,
      ssh |-> Remote(HostIp, chk, ps, hn)] :
        c \in {[username |-> "root", alt_username |-> a, password |-> "secret"] :
                 a \in {None, "admin"}},
        e0 \in {<<>>, <<PriorError>>},
        chk \in DockerCheckAnswers, ps \in DockerPsAnswers,
        hn \in HostnameAnswers}

InitDocker ==
    /\ pc = "scan_docker_on_host"
    /\ env \in DockerEnvs
    /\ ret = <<>>
    /\ errors_list = env.errors0
    /\ all_results = <<>>
    /\ calls = <<>>
    /\ db = EmptyDb
    /\ scan_id = 1
    /\ outcomes = <<>>

CallScanDocker ==
    /\ pc = "scan_docker_on_host"
    /\ LET r == scan_docker_on_host(env, env.ip, env.ssh_config, errors_list,
                                    calls, scan_id)
       IN  /\ ret' = r.ret
           /\ errors_list' = r.errors_list
           /\ calls' = r.calls
           /\ pc' = IF r.raised THEN "raised" ELSE "returned"
    /\ UNCHANGED <<env, all_results, db, scan_id, outcomes>>

NextDocker == CallScanDocker

SpecDocker == InitDocker /\ [][NextDocker]_vars

\* What the target does for a command of the inventory (the same for every
\* user in this harness).
DockerAnswer(command) ==
    env.ssh[<<env.ip, command, env.ssh_config.username>>]

DockerDone == pc \in {"returned", "raised"}

\* C6: when the presence check runs and prints the no-engine sentinel, or
\* prints nothing, scan_docker_on_host returns the empty list, leaves the
\* error log as it was, and runs neither the listing nor the hostname
\* command.
C6_NoEngineIsNotAnError ==
    (/\ DockerDone
     /\ ~DockerAnswer(CmdDockerCheck).raised
     /\ \/ Contains(DockerAnswer(CmdDockerCheck).val, "NO_DOCKER")
        \/ Strip(DockerAnswer(CmdDockerCheck).val) = "")
    =>  /\ pc = "returned"
        /\ ret = <<>>
        /\ errors_list = env.errors0
        /\ \A i \in 1..Len(calls) :
               calls[i].command \notin {CmdDockerPs, CmdHostname}

\* C6 witness: the engine's binary is there but the daemon is not, and a
\* listing would have had something to say.
C6_Witness ==
    /\ pc = "returned"
    /\ DockerAnswer(CmdDockerCheck).val = "/usr/bin/docker\nNO_DOCKER\n"
    /\ DockerAnswer(CmdDockerPs) = [raised |-> FALSE, val |-> Unlines(<<LineA1>>)]
    /\ ret = <<>>
    /\ Len(calls) = 1

\* The listing command ran and printed something.
ListingPrinted ==
    /\ ~DockerAnswer(CmdDockerCheck).raised
    /\ ~Contains(DockerAnswer(CmdDockerCheck).val, "NO_DOCKER")
    /\ Strip(DockerAnswer(CmdDockerCheck).val) # ""
    /\ ~DockerAnswer(CmdDockerPs).raised
    /\ Strip(DockerAnswer(CmdDockerPs).val) # ""

\* The non-blank lines of the listing, trimmed.
PrintedLines ==
    LET raw == Split(Strip(DockerAnswer(CmdDockerPs).val), "\n")
        trimmed == [i \in 1..Len(raw) |-> Strip(raw[i])]
    IN  SelectSeq(trimmed, LAMBDA l : l # "")

FailsToParse(line) == JsonLoads(line).kind = "JSONDecodeError"

\* The errors the call added to the log that carry the parse tag.
NewParseErrors ==
    SelectSeq(SubSeq(errors_list, Len(env.errors0) + 1, Len(errors_list)),
              LAMBDA er : er.component = "Docker-Parse")

\* C7: for every batch of listing lines each line is handled on its own:
\* a line that fails to parse adds one parse-tagged ScanError with the line
\* as detail, every other line gives one entry of the returned list, in the
\* order of the input.
C7_EachLineOnItsOwn ==
    (DockerDone /\ ListingPrinted) =>
        LET bad == SelectSeq(PrintedLines, FailsToParse)
            good == SelectSeq(PrintedLines, LAMBDA l : ~FailsToParse(l))
        IN  /\ pc = "returned"
            /\ Len(ret) = Len(good)
            /\ \A i \in 1..Len(good) :
                   JsonLoads(good[i]).kind = "dict" =>
                       ret[i].container_id = JsonLoads(good[i]).val.id
            /\ [i \in 1..Len(NewParseErrors) |->
                   NewParseErrors[i].error_detail] = bad

-----------------------------------------------------------------------------
(* get_guest_ip_from_proxmox on its own: both guest kinds against the      *)
(* answers of the agent, declared-config and live-interfaces endpoints     *)

MaxIfaces == 2

MaxConfigItems == 2

NodeName == "pve1"

GuestVmid == 100

ApiError == [raised |-> TRUE, val |-> "500 Server Error"]

ApiOk(data) == [raised |-> FALSE, val |-> data]

AgentAddr(type, address) ==
    JDict(<< <<"ip-address-type", JStr(type)>>,
             <<"ip-address", JStr(address)>> >>)

AgentIface(name, addrs) ==
    JDict(<< <<"name", JStr(name)>>, <<"ip-addresses", JList(addrs)>> >>)

\* Interfaces a guest agent reports; every address entry carries its type
\* and its address, as the agent's schema has it.
AgentIfaces ==
    {AgentIface("lo", <<AgentAddr("ipv4", "127.0.0.1")>>),
     AgentIface("lo", <<AgentAddr("ipv4", "127.0.0.1"),
                        AgentAddr("ipv4", "10.0.0.9")>>),
     AgentIface("eth0", <<AgentAddr("ipv6", "fe80::1"),
                          AgentAddr("ipv4", "10.0.0.5")>>),
     AgentIface("eth1", <<AgentAddr("ipv4", "127.0.0.2"),
                          AgentAddr("ipv4", "10.0.0.6")>>),
     AgentIface("ens19", <<AgentAddr("ipv6", "fd00::7")>>),
     JDict(<< <<"name", JStr("docker0")>> >>)}

AgentAnswers ==
    {ApiError, ApiOk(JNull), ApiOk(JDict(<<>>)),
     ApiOk(JDict(<< <<"result", JNull>> >>))}
    \cup {ApiOk(JDict(<< <<"result", JList(l)>> >>)) :
            l \in UNION {[1..n -> AgentIfaces] : n \in 0..MaxIfaces}}

\* Items of a container's declared configuration.
ConfigItems ==
    {<<"hostname", JStr("ct100")>>,
     <<"description", JStr("ip=10.9.9.9")>>,
     <<"net0", JStr("name=eth0,bridge=vmbr0,ip=10.0.0.5/24,type=veth")>>,
     <<"net0", JStr("name=eth0,bridge=vmbr0,ip=dhcp,type=veth")>>,
     <<"net0", JStr("name=eth0,bridge=vmbr0")>>,
     <<"net1", JStr("name=eth1, ip=10.0.0.6")>>,
     <<"net1", JStr("name=eth1,ip=,ip6=auto")>>}

\* No key twice: the payload is a JSON object.
DistinctKeys(items) ==
    \A i, j \in 1..Len(items) : i # j => items[i][1] # items[j][1]

ConfigAnswers ==
    {ApiError, ApiOk(JNull)}
    \cup {ApiOk(JDict(l)) :
            l \in {c \in UNION {[1..n -> ConfigItems] : n \in 0..MaxConfigItems} :
                     DistinctKeys(c)}}

LxcIface(name, inet) ==
    JDict(<< <<"name", JStr(name)>>, <<"inet", JStr(inet)>> >>)

\* Interfaces the live-interfaces endpoint reports.
LxcIfaces ==
    {LxcIface("lo", "127.0.0.1/8"),
     LxcIface("lo", "10.0.0.9/32"),
     LxcIface("dummy0", "127.0.0.2/8"),
     LxcIface("eth0", "10.0.0.7/24"),
     LxcIface("eth2", "10.0.0.8"),
     JDict(<< <<"name", JStr("eth1")>> >>)}

InterfacesAnswers ==
    {ApiError, ApiOk(JDict(<<>>))}
    \cup {ApiOk(JList(l)) :
            l \in UNION {[1..n -> LxcIfaces] : n \in 0..MaxIfaces}}

GuestIpEnvs ==
    {[host_ip |-> HostIp, node_name |-> NodeName, vmtype |-> "qemu",
      vmid |-> GuestVmid, errors0 |-> <<>>,
      api |-> [k \in {<<HostIp, AgentEndpoint(NodeName, GuestVmid)>>} |-> a]] :
        a \in AgentAnswers}
    \cup
    {[host_ip |-> HostIp, node_name |-> NodeName, vmtype |-> "lxc",
      vmid |-> GuestVmid, errors0 |-> <<>>,
      api |-> [k \in {<<HostIp, LxcConfigEndpoint(NodeName, GuestVmid)>>,
                      <<HostIp, LxcInterfacesEndpoint(NodeName, GuestVmid)>>}
                 |-> IF k[2] = LxcConfigEndpoint(NodeName, GuestVmid)
                     THEN c ELSE i]] :
        c \in ConfigAnswers, i \in InterfacesAnswers}

InitGuestIp ==
    /\ pc = "get_guest_ip_from_proxmox"
    /\ env \in GuestIpEnvs
    /\ ret = None
    /\ errors_list = env.errors0
    /\ all_results = <<>>
    /\ calls = <<>>
    /\ db = EmptyDb
    /\ scan_id = 1
    /\ outcomes = <<>>

CallGetGuestIp ==
    /\ pc = "get_guest_ip_from_proxmox"
    /\ LET r == get_guest_ip_from_proxmox(env, env.host_ip, env.node_name,
                                          env.vmtype, env.vmid, calls)
       IN  /\ ret' = r.ret
           /\ calls' = r.calls
           /\ pc' = IF r.raised THEN "raised" ELSE "returned"
    /\ UNCHANGED <<env, errors_list, all_results, db, scan_id, outcomes>>

NextGuestIp == CallGetGuestIp

SpecGuestIp == InitGuestIp /\ [][NextGuestIp]_vars

GuestIpDone == pc \in {"returned", "raised"}

RECURSIVE Flatten(_)
Flatten(seqs) ==
    IF Len(seqs) = 0 THEN <<>> ELSE Head(seqs) \o Flatten(Tail(seqs))

FirstOrNone(s) == IF Len(s) = 0 THEN None ELSE s[1]

\* The text of s before its first slash.
BeforeSlash(s) ==
    LET at == {i \in 1..Len(s) : CharAt(s, i) = "/"} IN
    IF at = {} THEN s
    ELSE SubSeq(s, 1, (CHOOSE i \in at : \A j \in at : i <= j) - 1)

\* What the endpoint answers for the harness's guest.
EndpointAnswer(endpoint) == env.api[<<env.host_ip, endpoint>>]

\* C8: get_guest_ip_from_proxmox never raises: for both guest kinds and
\* every failing, malformed or empty answer it returns an address or None,
\* and the error log stays as it was.
C8_ResolverNeverRaises ==
    GuestIpDone =>
        /\ pc = "returned"
        /\ ret = None \/ Len(ret) > 0
        /\ errors_list = env.errors0

\* C8 witness: the agent's answer has a null result, which the loop cannot
\* iterate, and the call still returned, with None.
C8_Witness ==
    /\ pc = "returned"
    /\ env.vmtype = "qemu"
    /\ EndpointAnswer(AgentEndpoint(env.node_name, env.vmid))
           = ApiOk(JDict(<< <<"result", JNull>> >>))
    /\ ret = None

\* The interface listing of the guest agent, empty when there is none.
AgentListing ==
    LET a == EndpointAnswer(AgentEndpoint(env.node_name, env.vmid)) IN
    IF ~a.raised /\ IsDict(a.val) /\ HasKey(a.val, "result")
       /\ IsList(JGet(a.val, "result", JNull))
    THEN JGet(a.val, "result", JNull).v
    ELSE <<>>

\* The first IPv4 address outside 127.* on an interface other than lo.
FirstAgentAddress ==
    LET ifs == SelectSeq(AgentListing,
                         LAMBDA f : JGet(f, "name", JNull) # JStr("lo"))
        addrs == Flatten([i \in 1..Len(ifs) |->
                             JGet(ifs[i], "ip-addresses", JList(<<>>)).v])
        usable == SelectSeq(addrs,
                      LAMBDA a : /\ JGet(a, "ip-address-type", JNull) = JStr("ipv4")
                                 /\ ~StartsWith(JGet(a, "ip-address", JNull).v, "127."))
    IN  IF Len(usable) = 0 THEN None
        ELSE JGet(usable[1], "ip-address", JNull).v

\* C10: for a VM the interfaces of the guest agent's listing are scanned in
\* order, the interface lo is skipped, and the first IPv4 address that is no
\* loopback address is returned when there is one; otherwise None.
C10_FirstVmAddress ==
    (GuestIpDone /\ env.vmtype = "qemu") =>
        /\ pc = "returned"
        /\ ret = FirstAgentAddress

\* C10 witness: lo carries a routable alias and eth1 a loopback address
\* before its routable one; the routable address of eth1 is returned.
C10_Witness ==
    /\ pc = "returned"
    /\ env.vmtype = "qemu"
    /\ AgentListing =
           <<AgentIface("lo", <<AgentAddr("ipv4", "127.0.0.1"),
                                AgentAddr("ipv4", "10.0.0.9")>>),
             AgentIface("eth1", <<AgentAddr("ipv4", "127.0.0.2"),
                                  AgentAddr("ipv4", "10.0.0.6")>>)>>
    /\ ret = "10.0.0.6"

\* The declared configuration was fetched and is a mapping.
DeclaredConfigFetched ==
    LET a == EndpointAnswer(LxcConfigEndpoint(env.node_name, env.vmid)) IN
    ~a.raised /\ IsDict(a.val)

\* The first ip= value of a netN entry that is neither empty nor dhcp,
\* without its CIDR suffix; None when there is none.
DeclaredAddress ==
    IF ~DeclaredConfigFetched THEN None
    ELSE
    LET items == EndpointAnswer(LxcConfigEndpoint(env.node_name, env.vmid)).val.v
        nets == SelectSeq(items, LAMBDA it : StartsWith(it[1], "net"))
        parts == Flatten([i \in 1..Len(nets) |-> Split(nets[i][2].v, ",")])
        trimmed == [i \in 1..Len(parts) |-> Strip(parts[i])]
        assigns == SelectSeq(trimmed, LAMBDA q : StartsWith(q, "ip="))
        values == [i \in 1..Len(assigns) |->
                      BeforeSlash(SubSeq(assigns[i], 4, Len(assigns[i])))]
    IN  FirstOrNone(SelectSeq(values, LAMBDA v : v \notin {"", "dhcp"}))

\* The first inet address outside 127.* of a live interface other than lo,
\* without its CIDR suffix; None when there is none or the query fails.
LiveAddress ==
    LET a == EndpointAnswer(LxcInterfacesEndpoint(env.node_name, env.vmid)) IN
    IF a.raised \/ ~IsList(a.val) THEN None
    ELSE
    LET usable == SelectSeq(a.val.v,
                      LAMBDA f : /\ JGet(f, "name", JNull) # JStr("lo")
                                 /\ JGet(f, "inet", JStr("")).v # ""
                                 /\ ~StartsWith(JGet(f, "inet", JStr("")).v, "127."))
    IN  IF Len(usable) = 0 THEN None
        ELSE BeforeSlash(JGet(usable[1], "inet", JStr("")).v)

LiveInterfacesQueried ==
    \E i \in 1..Len(calls) :
        /\ calls[i].op = "proxmox_api"
        /\ calls[i].endpoint = LxcInterfacesEndpoint(env.node_name, env.vmid)

\* C9 as stated: for a container guest the declared address is returned,
\* and whenever no declared address is found the live-interfaces endpoint is
\* queried and its first non-loopback inet address is returned.
C9_FallbackWheneverNothingDeclared ==
    (GuestIpDone /\ env.vmtype = "lxc") =>
        ret = IF DeclaredAddress # None THEN DeclaredAddress
              ELSE LiveAddress

\* C9 as amended: the declared address is returned when there is one; when
\* the declared configuration was fetched and holds none, the
\* live-interfaces endpoint is queried and its first non-loopback inet
\* address (None if it has none or the query fails) is returned; when the
\* declared configuration could not be fetched, None is returned and the
\* live-interfaces endpoint is not queried.
C9_FallbackWhenConfigHoldsNone ==
    (GuestIpDone /\ env.vmtype = "lxc") =>
        /\ pc = "returned"
        /\ IF ~DeclaredConfigFetched
           THEN ret = None /\ ~LiveInterfacesQueried
           ELSE IF DeclaredAddress # None
           THEN ret = DeclaredAddress /\ ~LiveInterfacesQueried
           ELSE LiveInterfacesQueried /\ ret = LiveAddress

\* C9 witness: net0 is on dhcp, and the address comes from the second live
\* interface, after lo, with its CIDR suffix cut.
C9_Witness ==
    /\ pc = "returned"
    /\ env.vmtype = "lxc"
    /\ EndpointAnswer(LxcConfigEndpoint(env.node_name, env.vmid)) =
           ApiOk(JDict(<< <<"net0",
               JStr("name=eth0,bridge=vmbr0,ip=dhcp,type=veth")>> >>))
    /\ EndpointAnswer(LxcInterfacesEndpoint(env.node_name, env.vmid)) =
           ApiOk(JList(<<LxcIface("lo", "127.0.0.1/8"),
                         LxcIface("eth0", "10.0.0.7/24")>>))
    /\ LiveInterfacesQueried
    /\ ret = "10.0.0.7"

-----------------------------------------------------------------------------
(* main: a whole run over a configured estate.  Every configured host and  *)
(* hub answers in one of the ways listed below; the local machine in one   *)
(* of the ways of LocalWorlds.                                             *)

MaxHosts == 2

HostAddr(i) == "10.0.0." \o ToString(i)

GuestAddr(i) == "10.0." \o ToString(i) \o ".100"

HostCfg(i) == [ip |-> HostAddr(i), user |-> "root@pam", password |-> "secret"]

HubCfg == [ip |-> "10.0.9.1", token |-> "t0ken"]

SecondHubCfg == [ip |-> "10.0.9.2", token |-> "t0ken2"]

MainSsh == [username |-> "root", alt_username |-> "admin", password |-> "secret"]

\* config.json: up to MaxHosts hosts and no hub or one, or one host and two
\* hubs, or one host and a retention count of one.
Configs ==
    {[proxmox_hosts |-> [i \in 1..n |-> HostCfg(i)],
      ssh_credentials |-> MainSsh] : n \in 0..MaxHosts}
    \cup
    {[proxmox_hosts |-> [i \in 1..n |-> HostCfg(i)],
      ssh_credentials |-> MainSsh,
      homeassistant |-> <<HubCfg>>] : n \in 0..MaxHosts}
    \cup
    {[proxmox_hosts |-> <<HostCfg(1)>>,
      ssh_credentials |-> MainSsh,
      homeassistant |-> <<HubCfg, SecondHubCfg>>]}
    \cup
    {[proxmox_hosts |-> <<HostCfg(1)>>,
      ssh_credentials |-> MainSsh,
      scan_options |-> [max_old_scans |-> 1]]}

NodeEntry ==
    JDict(<< <<"node", JStr(NodeName)>>, <<"status", JStr("online")>>,
             <<"uptime", JNum(86400)>>, <<"maxcpu", JNum(8)>> >>)

GuestRes(type, status) ==
    JDict(<< <<"type", JStr(type)>>, <<"vmid", JNum(GuestVmid)>>,
             <<"name", JStr("guest")>>, <<"status", JStr(status)>> >>)

StorageRes ==
    JDict(<< <<"type", JStr("storage")>>, <<"storage", JStr("local")>>,
             <<"plugintype", JStr("dir")>>, <<"status", JStr("available")>> >>)

BridgeIface(ip) ==
    JDict(<< <<"iface", JStr("vmbr0")>>, <<"type", JStr("bridge")>>,
             <<"address", JStr(ip)>>, <<"active", JNum(1)>> >>)

NetworkEndpoint == "/nodes/" \o NodeName \o "/network"

SshSays(text) == [raised |-> FALSE, val |-> text]

\* What the machine at ip does for the commands the scanner runs, whoever
\* logs in.
Machine(ip, uname, chk, ps, hn) ==
    [k \in {ip} \X {CmdUname, CmdDockerCheck, CmdDockerPs, CmdHostname}
              \X UserNames |->
        CASE k[2] = CmdUname -> uname
          [] k[2] = CmdDockerCheck -> chk
          [] k[2] = CmdDockerPs -> ps
          [] OTHER -> hn]

\* A host that answers everything: one running VM whose agent reports an
\* address, one storage, one bridge, no container engine on the host and
\* one container on the guest.
Healthy(ip, gip) ==
    [auth |-> [raised |-> FALSE, val |-> "PVE:ticket"],
     version |-> ApiOk(JDict(<< <<"version", JStr("8.2.4")>> >>)),
     nodes |-> ApiOk(JList(<<NodeEntry>>)),
     resources |-> ApiOk(JList(<<GuestRes("qemu", "running"), StorageRes>>)),
     agent |-> ApiOk(JDict(<< <<"result",
                  JList(<<AgentIface("eth0", <<AgentAddr("ipv4", gip)>>)>>)>> >>)),
     lxc_config |-> ApiOk(JDict(<< <<"net0",
                  JStr("name=eth0,bridge=vmbr0,ip=" \o gip \o "/24")>> >>)),
     lxc_interfaces |-> ApiError,
     network |-> ApiOk(JList(<<BridgeIface(ip)>>)),
     host |-> Machine(ip, SshSays("6.8.12-pve\n"), SshSays("NO_DOCKER\n"),
                      SshSays(""), SshSays("pve1\n")),
     guest |-> Machine(gip, SshSays("6.1.0\n"),
                       SshSays("/usr/bin/docker\n24.0.7\n"),
                       SshSays(LineA1 \o "\n"), SshSays("guest\n"))]

Unreachable(ip) == Machine(ip, SshTimeout, SshTimeout, SshTimeout, SshTimeout)

\* The ways a configured host answers.
HostAnswers(ip, gip) ==
    LET h == Healthy(ip, gip) IN
    {h,
     [h EXCEPT !.auth = [raised |-> TRUE, val |-> "401 Unauthorized"]],
     [h EXCEPT !.nodes = ApiError],
     [h EXCEPT !.nodes = ApiOk(JList(<<>>))],
     [h EXCEPT !.host = Unreachable(ip), !.guest = Unreachable(gip)],
     [h EXCEPT !.version = ApiError, !.resources = ApiError,
               !.network = ApiError],
     [h EXCEPT !.version = ApiOk(JNull)],
     [h EXCEPT !.resources = ApiOk(JNull)],
     [h EXCEPT !.host = Unreachable(ip), !.resources = ApiOk(JNull)],
     [h EXCEPT !.resources = ApiOk(JList(<<GuestRes("lxc", "running")>>))],
     [h EXCEPT !.host = Machine(ip, SshSays("6.8.12-pve\n"),
                            SshSays("/usr/bin/docker\n24.0.7\n"),
                            SshSays(LineA1 \o "\n" \o LineNull \o "\n"),
                            SshSays("pve1\n"))]}

\* The outside world of one host scan, built from the host's answers.
HostWorld(ip, a) ==
    [auth |-> (ip :> a.auth),
     api |-> (<<ip, "/version">> :> a.version)
             @@ (<<ip, "/nodes">> :> a.nodes)
             @@ (<<ip, "/cluster/resources">> :> a.resources)
             @@ (<<ip, AgentEndpoint(NodeName, GuestVmid)>> :> a.agent)
             @@ (<<ip, LxcConfigEndpoint(NodeName, GuestVmid)>> :> a.lxc_config)
             @@ (<<ip, LxcInterfacesEndpoint(NodeName, GuestVmid)>>
                     :> a.lxc_interfaces)
             @@ (<<ip, NetworkEndpoint>> :> a.network),
     ssh |-> a.host @@ a.guest]

HostWorlds(i) ==
    {HostWorld(HostAddr(i), a) : a \in HostAnswers(HostAddr(i), GuestAddr(i))}

Entity(entity_id, state, attrs) ==
    JDict(<< <<"entity_id", JStr(entity_id)>>, <<"state", JStr(state)>>,
             <<"attributes", JDict(attrs)>> >>)

AddonEntity ==
    Entity("update.mosquitto_update", "on",
           << <<"title", JStr("Mosquitto")>>,
              <<"installed_version", JStr("6.4")>>,
              <<"latest_version", JStr("6.5")>> >>)

HubStates ==
    <<Entity("sensor.power", "12", <<>>),
      AddonEntity,
      Entity("update.plug_firmware_update", "off",
             << <<"title", JStr("Plug")>> >>)>>

HubConfigOk == ApiOk(JDict(<< <<"location_name", JStr("Home")>> >>))

\* The ways the hub answers its two paths.
HubWorlds(ip) ==
    {[hub |-> (<<ip, "/api/config">> :> c) @@ (<<ip, "/api/states">> :> s)] :
        <<c, s>> \in
            {<<ApiError, ApiError>>,
             <<HubConfigOk, ApiError>>,
             <<HubConfigOk, ApiOk(JList(HubStates))>>,
             <<HubConfigOk, ApiOk(JNull)>>,
             <<HubConfigOk,
               ApiOk(JList(<<AddonEntity,
                   JDict(<< <<"entity_id", JStr("update.core_update")>>,
                            <<"attributes",
                              JDict(<< <<"title", JStr("Core")>> >>)>> >>)>>))>>}}

\* The ways the docker binary on the scanner's own machine answers.
LocalWorlds ==
    {[check |-> [raised |-> TRUE, val |-> "FileNotFoundError: docker",
                 returncode |-> None],
      ps |-> [raised |-> FALSE, val |-> None, stdout |-> ""],
      hostname |-> "scanner"]}
    \cup
    {[check |-> [raised |-> FALSE, val |-> None, returncode |-> rc],
      ps |-> [raised |-> FALSE, val |-> None, stdout |-> out],
      hostname |-> "scanner"] :
        <<rc, out>> \in {<<1, "">>,
                         <<0, LineB2 \o "\n" \o LineNotJson \o "\n">>,
                         <<0, LineB2 \o "\n" \o LineNull \o "\n">>}}

\* A database that holds one completed earlier run.
InitialDb ==
    [EmptyDb EXCEPT
        !.next_id = 2,
        !.scan_runs = <<[id |-> 1, status |-> "completed",
                         hosts_scanned |-> 0, vms_found |-> 0,
                         lxc_found |-> 0, docker_found |-> 0,
                         errors_count |-> 0]>>]

\* LoopPc leaving the hubs out.
LoopPcHostsOnly(config, done) ==
    IF done < Len(config.proxmox_hosts) THEN "hosts" ELSE "local"

\* Where main goes on after done passes of its two loops.
LoopPc(config, done) ==
    LET hosts == config.proxmox_hosts
        hubs == OptGet(config, "homeassistant", <<>>)
    IN  IF done < Len(hosts) THEN "hosts"
        ELSE IF done < Len(hosts) + Len(hubs) THEN "hubs"
        ELSE "local"

Init ==
    /\ pc = "begin"
    /\ env \in Configs
    /\ ret = NoneRec
    /\ errors_list = <<>>
    /\ all_results = <<>>
    /\ calls = <<>>
    /\ db = InitialDb
    /\ scan_id = None
    /\ outcomes = <<>>

\* "# Create scan run" and the locals main sets up.
BeginRun ==
    /\ pc = "begin"
    /\ db' = InsertRun(db)
    /\ scan_id' = db.next_id
    /\ errors_list' = <<>>
    /\ all_results' = <<>>
    /\ pc' = LoopPc(env, 0)
    /\ UNCHANGED <<env, ret, calls, outcomes>>

\* One pass of "# Scan each Proxmox host".
ScanHost ==
    /\ pc = "hosts"
    /\ LET i == Len(outcomes) + 1
           host_cfg == env.proxmox_hosts[i]
       IN  \E w \in HostWorlds(i) :
           \E r \in {scan_proxmox_host(w, host_cfg, env.ssh_credentials,
                                       scan_id, errors_list, calls,
                                       ScanOptions(env))} :
             LET t == HostTry(r, scan_id, host_cfg, all_results)
             IN  /\ all_results' = t.all_results
                 /\ errors_list' = t.errors_list
                 /\ calls' = r.calls
                 /\ outcomes' = Append(outcomes,
                        [kind |-> "host", ip |-> host_cfg.ip,
                         raised |-> r.raised, exc |-> r.exc,
                         result |-> r.result])
                 /\ pc' = IF t.raised THEN "raised" ELSE LoopPc(env, i)
    /\ UNCHANGED <<env, ret, db, scan_id>>

\* One pass of "# Scan Home Assistant instances".
ScanHub ==
    /\ pc = "hubs"
    /\ LET i == Len(outcomes) + 1
           ha_cfg == env.homeassistant[i - Len(env.proxmox_hosts)]
       IN  \E w \in HubWorlds(ha_cfg.ip) :
           \E r \in {scan_homeassistant(w, ha_cfg, scan_id, errors_list,
                                        calls)} :
             LET t == HubTry(r, scan_id, ha_cfg, all_results)
             IN  /\ all_results' = t.all_results
                 /\ errors_list' = t.errors_list
                 /\ calls' = r.calls
                 /\ outcomes' = Append(outcomes,
                        [kind |-> "hub", ip |-> ha_cfg.ip,
                         raised |-> r.raised, exc |-> r.exc,
                         result |-> DockerOnlyResult(r.result.docker)])
                 /\ pc' = IF t.raised THEN "raised" ELSE LoopPc(env, i)
    /\ UNCHANGED <<env, ret, db, scan_id>>

\* "# Also scan Docker on localhost"
ScanLocalDocker ==
    /\ pc = "local"
    /\ \E l \in LocalWorlds :
       \E r \in {LocalDocker(l, scan_id, errors_list, calls, all_results)} :
         /\ all_results' = r.all_results
         /\ errors_list' = r.errors_list
         /\ calls' = r.calls
    /\ pc' = "save"
    /\ UNCHANGED <<env, ret, db, scan_id, outcomes>>

\* "# Save to database"
SaveToDatabase ==
    /\ pc = "save"
    /\ \E saved \in {save_to_database(db, scan_id, all_results,
                                       errors_list)} :
         /\ db' = saved.db
         /\ ret' = saved.totals
    /\ pc' = "finalize"
    /\ UNCHANGED <<env, errors_list, all_results, calls, scan_id, outcomes>>

\* "# Update scan run"
UpdateScanRun ==
    /\ pc = "finalize"
    /\ db' = FinalizeRun(db, scan_id, all_results, ret, errors_list)
    /\ pc' = "cleanup"
    /\ UNCHANGED <<env, ret, errors_list, all_results, calls, scan_id,
                   outcomes>>

\* "# Cleanup old scans", db.close() and main's return value.
CleanupAndReturn ==
    /\ pc = "cleanup"
    /\ db' = cleanup_old_scans(db, OptGet(ScanOptions(env), "max_old_scans",
                                          DefaultMaxOldScans))
    /\ ret' = [exit_code |-> IF errors_list = <<>> THEN 0 ELSE 1]
    /\ pc' = "done"
    /\ UNCHANGED <<env, errors_list, all_results, calls, scan_id, outcomes>>

Next ==
    \/ BeginRun
    \/ ScanHost
    \/ ScanHub
    \/ ScanLocalDocker
    \/ SaveToDatabase
    \/ UpdateScanRun
    \/ CleanupAndReturn

Spec == Init /\ [][Next]_vars

\* main runs on until it ends: no step of it waits for anything but the
\* answers of the outside world, which all come within their timeouts.
FairSpec == Spec /\ WF_vars(Next)

-----------------------------------------------------------------------------
(* Claims about a whole run *)

\* Some row of the table belongs to the current run and carries the entry.
Holds(table, entry) ==
    \E j \in 1..Len(table) :
        /\ table[j].scan_id = scan_id
        /\ \A f \in DOMAIN entry : table[j][f] = entry[f]

AllHeld(table, entries) ==
    \A k \in 1..Len(entries) : Holds(table, entries[k])

\* The sink holds every record of the aggregated dataset and every error of
\* the log.
Persisted ==
    /\ \A i \in 1..Len(all_results) :
         LET r == all_results[i] IN
         /\ r.host # NoneRec => Holds(db.proxmox_hosts, r.host)
         /\ AllHeld(db.virtual_machines, r.vms)
         /\ AllHeld(db.lxc_containers, r.lxcs)
         /\ AllHeld(db.docker_containers, r.docker)
         /\ AllHeld(db.storage_info, r.storage)
         /\ AllHeld(db.network_info, r.network)
    /\ \A k \in 1..Len(errors_list) :
         \E j \in 1..Len(db.scan_errors) : db.scan_errors[j] = errors_list[k]

\* The run's ScanRun is marked completed and counts the errors logged.
Finalized ==
    \E j \in 1..Len(db.scan_runs) :
        /\ db.scan_runs[j].id = scan_id
        /\ db.scan_runs[j].status = "completed"
        /\ db.scan_runs[j].errors_count = Len(errors_list)

HasError(component) ==
    \E k \in 1..Len(errors_list) : errors_list[k].component = component

\* C1: whatever the hosts, the guests, the remote machines and the hub
\* answer, the run comes to its end with the dataset and the error log in
\* the sink and its ScanRun finalized.
C1_RunEndsPersistedAndFinalized ==
    <>(pc = "done" /\ Persisted /\ Finalized)

\* A finished run in which one host refused authentication, the remote
\* commands of another timed out and the hub's configuration call failed.
C1_Witness ==
    /\ pc = "done"
    /\ Persisted
    /\ Finalized
    /\ HasError("Proxmox-Auth")
    /\ HasError("Proxmox-SSH")
    /\ HasError("HomeAssistant-API")
    /\ Len(db.proxmox_hosts) = 1

\* The host at ip refused authentication.
AuthFailed(ip) ==
    \E c \in 1..Len(calls) :
        calls[c] = [op |-> "proxmox_authenticate", ip |-> ip, raised |-> TRUE]

Authenticated(ip) ==
    \E c \in 1..Len(calls) :
        calls[c].op = "proxmox_authenticate" /\ calls[c].ip = ip

\* No entry of the list names one of the addresses.
NoneFor(entries, addrs) ==
    \A k \in 1..Len(entries) : entries[k].host_ip \notin addrs

\* Neither the dataset nor the sink holds a record for the addresses.
NoRecordsFor(addrs) ==
    /\ \A i \in 1..Len(all_results) :
         LET r == all_results[i] IN
         /\ r.host # NoneRec => r.host.ip_address \notin addrs
         /\ NoneFor(r.vms, addrs) /\ NoneFor(r.lxcs, addrs)
         /\ NoneFor(r.docker, addrs) /\ NoneFor(r.storage, addrs)
         /\ NoneFor(r.network, addrs)
    /\ \A j \in 1..Len(db.proxmox_hosts) :
         db.proxmox_hosts[j].ip_address \notin addrs
    /\ NoneFor(db.virtual_machines, addrs) /\ NoneFor(db.lxc_containers, addrs)
    /\ NoneFor(db.docker_containers, addrs) /\ NoneFor(db.storage_info, addrs)
    /\ NoneFor(db.network_info, addrs)

\* C2: a host whose authentication fails gets no record of any kind, exactly
\* one error, tagged Proxmox-Auth, and no call but the authentication; the
\* next configured host is gone on to.
C2_AuthFailureStopsThatHostOnly ==
    \A i \in 1..Len(env.proxmox_hosts) :
        LET ip == env.proxmox_hosts[i].ip
            addrs == {ip, GuestAddr(i)}
        IN  AuthFailed(ip) =>
            /\ NoRecordsFor(addrs)
            /\ Cardinality({k \in 1..Len(errors_list) :
                              errors_list[k].host_ip \in addrs}) = 1
            /\ \A k \in 1..Len(errors_list) :
                 errors_list[k].host_ip \in addrs
                     => errors_list[k].component = "Proxmox-Auth"
            /\ Cardinality({c \in 1..Len(calls) : calls[c].ip \in addrs}) = 1
            /\ pc # "raised"
            /\ i < Len(env.proxmox_hosts) =>
                 IF Len(outcomes) = i THEN pc = "hosts"
                 ELSE Authenticated(env.proxmox_hosts[i + 1].ip)

\* A finished run whose first host refused authentication and whose second
\* host is in the sink.
C2_Witness ==
    /\ pc = "done"
    /\ Len(env.proxmox_hosts) = 2
    /\ AuthFailed(HostAddr(1))
    /\ \E j \in 1..Len(db.proxmox_hosts) :
         db.proxmox_hosts[j].ip_address = HostAddr(2)
    /\ \E j \in 1..Len(db.scan_errors) :
         /\ db.scan_errors[j].host_ip = HostAddr(1)
         /\ db.scan_errors[j].component = "Proxmox-Auth"

\* C3: no exception leaves the processing of a host or a hub, and what that
\* processing had collected is in the aggregated dataset.
C3_NoExceptionEscapes ==
    \A i \in 1..Len(outcomes) :
        /\ ~outcomes[i].raised
        /\ \E j \in 1..Len(all_results) : all_results[j] = outcomes[i].result

-----------------------------------------------------------------------------
(* scan_proxmox_host on its own: one host with a VM and a container guest, *)
(* against the answers of its API, of its own shell and of its guests'     *)
(* shells, under every setting of the scan options                         *)

VmGuest == [type |-> "qemu", vmid |-> 100, name |-> "vm", addr |-> "10.0.1.100"]

CtGuest == [type |-> "lxc", vmid |-> 101, name |-> "ct", addr |-> "10.0.1.101"]

Guests == {VmGuest, CtGuest}

GuestEntry(g, status) ==
    JDict(<< <<"type", JStr(g.type)>>, <<"vmid", JNum(g.vmid)>>,
             <<"name", JStr(g.name)>>, <<"status", JStr(status)>> >>)

\* The agent of the VM and the declared configuration of the container give
\* the guest's address, or the query fails.
AddressAnswer(g, known) ==
    IF ~known THEN ApiError
    ELSE IF g.type = "qemu"
    THEN ApiOk(JDict(<< <<"result",
             JList(<<AgentIface("eth0", <<AgentAddr("ipv4", g.addr)>>)>>)>> >>))
    ELSE ApiOk(JDict(<< <<"net0",
             JStr("name=eth0,bridge=vmbr0,ip=" \o g.addr \o "/24")>> >>))

\* A machine without container engine, with one container, with a listing
\* that holds a line that is no JSON object, and one that cannot be reached.
EngineLess(ip) ==
    Machine(ip, SshSays("6.8.12-pve\n"), SshSays("NO_DOCKER\n"), SshSays(""),
            SshSays("pve1\n"))

OneContainer(ip) ==
    Machine(ip, SshSays("6.8.12-pve\n"), SshSays("/usr/bin/docker\n24.0.7\n"),
            SshSays(LineA1 \o "\n"), SshSays("box\n"))

OddListing(ip) ==
    Machine(ip, SshSays("6.8.12-pve\n"), SshSays("/usr/bin/docker\n24.0.7\n"),
            SshSays(LineA1 \o "\n" \o LineNull \o "\n"), SshSays("box\n"))

\* The scan options with the keys in off set to false and the others left
\* out, and the skip list main puts in.
Options(off, skip) ==
    [k \in off |-> FALSE] @@ [skip_docker_scan |-> skip, guest_labels |-> <<>>]

\* One environment of a host scan.  o gives every answer and every option.
HostEnv(o) ==
    [host_cfg |-> HostCfg(1),
     ssh_config |-> MainSsh,
     scan_options |-> o.scan_options,
     auth |-> (HostAddr(1) :> o.auth),
     api |-> (<<HostAddr(1), "/version">> :> o.version)
             @@ (<<HostAddr(1), "/nodes">> :> o.nodes)
             @@ (<<HostAddr(1), "/cluster/resources">> :> o.resources)
             @@ (<<HostAddr(1), AgentEndpoint(NodeName, VmGuest.vmid)>>
                     :> AddressAnswer(VmGuest, o.vm_known))
             @@ (<<HostAddr(1), LxcConfigEndpoint(NodeName, CtGuest.vmid)>>
                     :> AddressAnswer(CtGuest, o.ct_known))
             @@ (<<HostAddr(1), LxcInterfacesEndpoint(NodeName, CtGuest.vmid)>>
                     :> ApiError)
             @@ (<<HostAddr(1), NetworkEndpoint>> :> o.network),
     ssh |-> o.host @@ o.vm @@ o.ct]

AuthOk == [raised |-> FALSE, val |-> "PVE:ticket"]

AuthRefused == [raised |-> TRUE, val |-> "401 Unauthorized"]

VersionOk == ApiOk(JDict(<< <<"version", JStr("8.2.4")>> >>))

\* Hosts that fail in every combination of their own steps, with both guests
\* running and reachable.
FailingHostEnvs ==
    {HostEnv([auth |-> a, version |-> v, nodes |-> n, resources |-> r,
              vm_known |-> TRUE, ct_known |-> TRUE, network |-> nw,
              host |-> h, vm |-> OneContainer(VmGuest.addr),
              ct |-> OneContainer(CtGuest.addr),
              scan_options |-> Options(off, <<>>)]) :
        a \in {AuthOk, AuthRefused},
        v \in {VersionOk, ApiError, ApiOk(JNull)},
        n \in {ApiOk(JList(<<NodeEntry>>)), ApiError, ApiOk(JList(<<>>))},
        r \in {ApiOk(JList(<<GuestEntry(VmGuest, "running"), StorageRes,
                             GuestEntry(CtGuest, "running")>>)),
               ApiError, ApiOk(JNull)},
        nw \in {ApiOk(JList(<<BridgeIface(HostAddr(1))>>)), ApiError},
        h \in {EngineLess(HostAddr(1)), OneContainer(HostAddr(1)),
               OddListing(HostAddr(1)), Unreachable(HostAddr(1))},
        off \in SUBSET {"scan_network", "scan_docker"}}

\* Healthy hosts whose guests run or not, have a known address or not, are
\* on the skip list or not, and answer the engine commands or not.
GuestHostEnvs ==
    {HostEnv([auth |-> AuthOk, version |-> VersionOk,
              nodes |-> ApiOk(JList(<<NodeEntry>>)),
              resources |-> ApiOk(JList(<<GuestEntry(VmGuest, st[1]),
                                          GuestEntry(CtGuest, st[2])>>)),
              vm_known |-> known[1], ct_known |-> known[2],
              network |-> ApiOk(JList(<<>>)),
              host |-> EngineLess(HostAddr(1)), vm |-> vm, ct |-> ct,
              scan_options |-> Options(off, skip)]) :
        st \in {"running", "stopped"} \X {"running", "stopped"},
        known \in BOOLEAN \X BOOLEAN,
        skip \in {<<>>, <<VmGuest.addr>>, <<CtGuest.addr>>,
                  <<CtGuest.addr, VmGuest.addr>>},
        off \in SUBSET {"scan_docker", "ssh_into_guests"},
        vm \in {OneContainer(VmGuest.addr), Unreachable(VmGuest.addr),
                OddListing(VmGuest.addr)},
        ct \in {OneContainer(CtGuest.addr), Unreachable(CtGuest.addr)}}

InitHost ==
    /\ pc = "scan_proxmox_host"
    /\ env \in FailingHostEnvs \cup GuestHostEnvs
    /\ ret = NoneRec
    /\ errors_list = <<>>
    /\ all_results = <<>>
    /\ calls = <<>>
    /\ db = EmptyDb
    /\ scan_id = 1
    /\ outcomes = <<>>

\* The call; ret is the result dict as the function leaves it.
CallScanProxmoxHost ==
    /\ pc = "scan_proxmox_host"
    /\ \E r \in {scan_proxmox_host(env, env.host_cfg, env.ssh_config, scan_id,
                                   errors_list, calls, env.scan_options)} :
         /\ ret' = r.result
         /\ errors_list' = r.errors_list
         /\ calls' = r.calls
         /\ pc' = IF r.raised THEN "raised" ELSE "returned"
    /\ UNCHANGED <<env, all_results, db, scan_id, outcomes>>

NextHost == CallScanProxmoxHost

SpecHost == InitHost /\ [][NextHost]_vars

-----------------------------------------------------------------------------
(* Claims about one host scan *)

HostScanDone == pc \in {"returned", "raised"}

\* The GuestRecords of the result.
GuestRecords == ret.vms \o ret.lxcs

\* The addresses of the guests recorded as running.
RunningAddresses ==
    {GuestRecords[k].ip_address : k \in
        {j \in 1..Len(GuestRecords) :
            /\ GuestRecords[j].status = "running"
            /\ GuestRecords[j].ip_address \notin {None, ""}}}

OnSkipList(addr) ==
    \E k \in 1..Len(env.scan_options.skip_docker_scan) :
        env.scan_options.skip_docker_scan[k] = addr

\* Some remote command was run, or tried, on the machine at addr.
InventoryTried(addr) ==
    \E c \in 1..Len(calls) : calls[c].op = "ssh_exec" /\ calls[c].ip = addr

ErrorsFor(addr) ==
    {k \in 1..Len(errors_list) : errors_list[k].host_ip = addr}

\* Neither option that turns the guest scan off is set to false.
GuestScanEnabled ==
    /\ "scan_docker" \notin DOMAIN env.scan_options
    /\ "ssh_into_guests" \notin DOMAIN env.scan_options

\* C11: a running guest whose address is on the skip list is never logged
\* into and gets no error; every other running guest with an address is
\* logged into for its inventory when the guest scan is enabled.
C11_SkipListSkipsOnlyListedGuests ==
    HostScanDone =>
        \A addr \in RunningAddresses :
            IF OnSkipList(addr)
            THEN ~InventoryTried(addr) /\ ErrorsFor(addr) = {}
            ELSE GuestScanEnabled => InventoryTried(addr)

\* The part of C11 about the listed guests alone.
C11_ListedGuestsUntouched ==
    HostScanDone =>
        \A addr \in RunningAddresses :
            OnSkipList(addr) => ~InventoryTried(addr) /\ ErrorsFor(addr) = {}

\* The part of C11 about the other guests, for scans that return.
C11_OthersScannedWhenReturned ==
    pc = "returned" =>
        \A addr \in RunningAddresses :
            ~OnSkipList(addr) /\ GuestScanEnabled => InventoryTried(addr)

\* The query that resolves the address of guest g.
AddressEndpoint(g) ==
    IF g.type = "qemu" THEN AgentEndpoint(NodeName, g.vmid)
    ELSE LxcConfigEndpoint(NodeName, g.vmid)

\* The address the environment resolves for guest g, or None.
ResolvedAddress(g) ==
    IF env.api[<<HostAddr(1), AddressEndpoint(g)>>].raised THEN None
    ELSE g.addr

\* The guest the record is about.
GuestOfRecord(record) == CHOOSE g \in Guests : g.vmid = record.vmid

\* C12: only guests recorded as running and with an address are logged into
\* for their inventory, and every GuestRecord carries the address resolved
\* for its guest, running or not.
C12_OnlyRunningGuestsWithAddressAreScanned ==
    HostScanDone =>
        /\ \A g \in Guests :
             InventoryTried(g.addr) => g.addr \in RunningAddresses
        /\ \A k \in 1..Len(GuestRecords) :
             GuestRecords[k].ip_address =
                 ResolvedAddress(GuestOfRecord(GuestRecords[k]))

\* A scan that returned with the stopped VM recorded with its address and
\* never logged into, and the running container logged into.
C12_Witness ==
    /\ pc = "returned"
    /\ \E k \in 1..Len(ret.vms) :
         /\ ret.vms[k].status = "stopped"
         /\ ret.vms[k].ip_address = VmGuest.addr
    /\ ~InventoryTried(VmGuest.addr)
    /\ InventoryTried(CtGuest.addr)

\* The answer of the environment to the host's query of path.
HostAnswer(path) == env.api[<<HostAddr(1), path>>]

AuthenticationFails == env.auth[HostAddr(1)].raised

TopologyFetchFails == HostAnswer("/nodes").raised

TopologyHasNoNodes ==
    /\ ~HostAnswer("/nodes").raised
    /\ HostAnswer("/nodes").val \in {JNull, JList(<<>>), JDict(<<>>)}

\* The scan ended before producing the HostSnapshot.
HostAborted == HostScanDone /\ ret.host = NoneRec

\* C13: a host scan aborts only when authentication fails or the topology
\* fetch fails or returns no nodes, and every abort leaves a ScanError for
\* the host.
C13_AbortOnlyHostFatalAndLogged ==
    HostAborted =>
        /\ AuthenticationFails \/ TopologyFetchFails \/ TopologyHasNoNodes
        /\ ErrorsFor(HostAddr(1)) # {}

\* The part of C13 about the cases: a scan that returns without the
\* HostSnapshot failed to authenticate or got no topology.
C13_ReturnedAbortsAreHostFatal ==
    pc = "returned" /\ ret.host = NoneRec =>
        AuthenticationFails \/ TopologyFetchFails \/ TopologyHasNoNodes

\* The part of C13 about the log, for the two failing calls.
C13_FailedCallsAreLogged ==
    HostScanDone /\ (AuthenticationFails \/ TopologyFetchFails) =>
        /\ ret.host = NoneRec
        /\ Cardinality(ErrorsFor(HostAddr(1))) = 1

\* The host's query of path was sent.
Queried(path) ==
    \E c \in 1..Len(calls) :
        /\ calls[c].op = "proxmox_api"
        /\ calls[c].ip = HostAddr(1)
        /\ calls[c].endpoint = path

\* The host's query of path was sent and failed.
QueryFailed(path) ==
    \E c \in 1..Len(calls) :
        /\ calls[c].op = "proxmox_api"
        /\ calls[c].ip = HostAddr(1)
        /\ calls[c].endpoint = path
        /\ calls[c].raised

\* The attempts to run command on the machine at addr.
Attempts(addr, command) ==
    {c \in 1..Len(calls) :
        /\ calls[c].op = "ssh_exec"
        /\ calls[c].ip = addr
        /\ calls[c].command = command}

\* The command was tried on the machine at addr and no attempt succeeded.
CommandFailed(addr, command) ==
    /\ Attempts(addr, command) # {}
    /\ \A c \in Attempts(addr, command) : calls[c].raised

\* The machines whose inventory the scan can ask for.
Machines == {HostAddr(1), VmGuest.addr, CtGuest.addr}

InventoryCommands == {CmdDockerCheck, CmdDockerPs, CmdHostname}

\* The failures of steps that are not host-fatal, one entry per failed step.
StepFailures ==
    {<<HostAddr(1), p>> : p \in {q \in {"/version", "/cluster/resources", NetworkEndpoint} : QueryFailed(q)}}
    \cup {<<m, cmd>> : m \in {HostAddr(1)}, cmd \in {k \in {CmdUname} : CommandFailed(HostAddr(1), k)}}
    \cup {mc \in Machines \X InventoryCommands : CommandFailed(mc[1], mc[2])}

\* The ScanErrors about a failed call or command that is not host-fatal.
StepErrors ==
    {k \in 1..Len(errors_list) :
        errors_list[k].component \notin {"Proxmox-Auth", "Proxmox-Nodes", "Docker-Parse"}}

\* C14: every failure of a step that is not host-fatal (version fetch, kernel
\* fetch, resource listing, network fetch, inventory commands) has its
\* ScanError, yields the default result, and the scan goes on to its next
\* step.
C14_EveryStepFailureLoggedAndSurvived ==
    HostScanDone =>
        /\ Cardinality(StepFailures) <= Cardinality(StepErrors)
        /\ QueryFailed("/version") /\ ret.host # NoneRec => ret.host.pve_version = "unknown"
        /\ CommandFailed(HostAddr(1), CmdUname) =>
              /\ "kernel_version" \notin DOMAIN ret.host
              /\ Queried("/cluster/resources")
        /\ QueryFailed("/cluster/resources") =>
              /\ ret.vms = <<>> /\ ret.lxcs = <<>> /\ ret.storage = <<>>
              /\ "scan_network" \notin DOMAIN env.scan_options => Queried(NetworkEndpoint)
        /\ QueryFailed(NetworkEndpoint) =>
              /\ ret.network = <<>>
              /\ "scan_docker" \notin DOMAIN env.scan_options => Attempts(HostAddr(1), CmdDockerCheck) # {}

\* The failed steps other than the version fetch.
LoggedStepFailures == StepFailures \ {<<HostAddr(1), "/version">>}

\* C14 without the version fetch among the logged failures: every failed
\* kernel fetch, resource listing, network fetch and inventory command has its
\* ScanError and a failed version fetch has none; each failed step, the
\* version fetch included, yields its default and the scan goes on.
C14_StepFailuresLoggedExceptVersion ==
    HostScanDone =>
        /\ Cardinality(LoggedStepFailures) = Cardinality(StepErrors)
        /\ QueryFailed("/version") /\ ret.host # NoneRec => ret.host.pve_version = "unknown"
        /\ CommandFailed(HostAddr(1), CmdUname) =>
              /\ "kernel_version" \notin DOMAIN ret.host
              /\ Queried("/cluster/resources")
        /\ QueryFailed("/cluster/resources") =>
              /\ ret.vms = <<>> /\ ret.lxcs = <<>> /\ ret.storage = <<>>
              /\ "scan_network" \notin DOMAIN env.scan_options => Queried(NetworkEndpoint)
        /\ QueryFailed(NetworkEndpoint) =>
              /\ ret.network = <<>>
              /\ "scan_docker" \notin DOMAIN env.scan_options => Attempts(HostAddr(1), CmdDockerCheck) # {}

\* A returned scan in which the version fetch, the kernel fetch, the resource
\* listing, the network fetch and the host's inventory command all failed:
\* four ScanErrors, and the HostSnapshot with the default version.
C14_Witness ==
    /\ pc = "returned"
    /\ QueryFailed("/version")
    /\ CommandFailed(HostAddr(1), CmdUname)
    /\ QueryFailed("/cluster/resources")
    /\ QueryFailed(NetworkEndpoint)
    /\ CommandFailed(HostAddr(1), CmdDockerCheck)
    /\ Len(errors_list) = 4
    /\ ret.host.pve_version = "unknown"

NetworkEnabled == "scan_network" \notin DOMAIN env.scan_options

InventoryEnabled == "scan_docker" \notin DOMAIN env.scan_options

\* C15: a failed resource listing does not abort the host scan: the
\* HostSnapshot is there, there are no guest and no storage records, and the
\* network fetch and the host's inventory are still asked for when enabled.
C15_FailedListingKeepsHostScanGoing ==
    HostScanDone /\ QueryFailed("/cluster/resources") =>
        /\ ret.host # NoneRec
        /\ ret.vms = <<>> /\ ret.lxcs = <<>> /\ ret.storage = <<>>
        /\ NetworkEnabled => Queried(NetworkEndpoint)
        /\ InventoryEnabled => Attempts(HostAddr(1), CmdDockerCheck) # {}

\* A returned scan whose listing failed and that still recorded the host, its
\* bridge and the container of the host's own engine.
C15_Witness ==
    /\ pc = "returned"
    /\ QueryFailed("/cluster/resources")
    /\ ret.host # NoneRec
    /\ Len(ret.network) = 1
    /\ Len(ret.docker) = 1
    /\ ret.vms = <<>> /\ ret.lxcs = <<>> /\ ret.storage = <<>>

-----------------------------------------------------------------------------
(* The hub loop of main on its own: every configured hub is scanned in turn,
   each answering as the environment says. *)

\* An attribute of an entity, left out when v is None.
Attr(key, v) == IF v = None THEN <<>> ELSE << <<key, JStr(v)>> >>

EntityIds ==
    {"update.device_firmware", "update.addon_foo_update",
     "sensor.addon_foo_update", "update.core", "update.plug_firmware_update"}

\* The state objects one entity of the listing ranges over.
Entities ==
    {Entity(id, st, Attr("title", t) \o Attr("installed_version", iv) \o Attr("latest_version", lv)) :
        id \in EntityIds, st \in {"on", "off", "unavailable"},
        t \in {None, "", "Foo"}, iv \in {None, "1.0"}, lv \in {None, "", "1.1"}}
    \cup {JDict(<< <<"entity_id", JStr("update.addon_foo_update")>>, <<"state", JStr("on")>> >>)}

HubAnswer(ip, c, s) == (<<ip, "/api/config">> :> c) @@ (<<ip, "/api/states">> :> s)

\* The ways one hub answers its two calls when calls fail.
HubFailures ==
    {<<ApiError, ApiError>>,
     <<ApiError, ApiOk(JList(HubStates))>>,
     <<HubConfigOk, ApiError>>,
     <<HubConfigOk, ApiOk(JList(HubStates))>>,
     <<ApiOk(JDict(<<>>)), ApiOk(JList(<<AddonEntity>>))>>,
     <<HubConfigOk, ApiOk(JNull)>>}

\* Two hubs, each failing or not.
FailingHubEnvs ==
    {[homeassistant |-> <<HubCfg, SecondHubCfg>>,
      hub |-> HubAnswer(HubCfg.ip, a[1], a[2]) @@ HubAnswer(SecondHubCfg.ip, b[1], b[2])] :
        a \in HubFailures, b \in HubFailures}

\* One healthy hub whose listing holds a sensor, one entity of any kind and
\* an add-on.
EntityHubEnvs ==
    {[homeassistant |-> <<HubCfg>>,
      hub |-> HubAnswer(HubCfg.ip, HubConfigOk,
                  ApiOk(JList(<<Entity("sensor.power", "12", <<>>), x, AddonEntity>>)))] :
        x \in Entities}

InitHub ==
    /\ pc = "hubs"
    /\ env \in FailingHubEnvs \cup EntityHubEnvs
    /\ ret = NoneRec
    /\ errors_list = <<>>
    /\ all_results = <<>>
    /\ calls = <<>>
    /\ db = EmptyDb
    /\ scan_id = 1
    /\ outcomes = <<>>

\* One pass of "for ha_cfg in config.get('homeassistant', [])".
ScanNextHub ==
    /\ pc = "hubs"
    /\ LET i == Len(outcomes) + 1
           ha_cfg == env.homeassistant[i]
       IN  \E r \in {scan_homeassistant(env, ha_cfg, scan_id, errors_list, calls)} :
             LET t == HubTry(r, scan_id, ha_cfg, all_results)
             IN  /\ all_results' = t.all_results
                 /\ errors_list' = t.errors_list
                 /\ calls' = r.calls
                 /\ outcomes' = Append(outcomes,
                        [kind |-> "hub", ip |-> ha_cfg.ip,
                         raised |-> r.raised, exc |-> r.exc,
                         result |-> DockerOnlyResult(r.result.docker)])
                 /\ pc' = IF t.raised THEN "raised"
                          ELSE IF i < Len(env.homeassistant) THEN "hubs"
                          ELSE "hubs_done"
    /\ UNCHANGED <<env, ret, db, scan_id>>

NextHub == ScanNextHub

SpecHub == InitHub /\ [][NextHub]_vars

-----------------------------------------------------------------------------
(* Claims about the hubs *)

\* The hubs scanned so far.
ScannedHubs == {env.homeassistant[k].ip : k \in 1..Len(outcomes)}

ConfigCallFails(ip) == env.hub[<<ip, "/api/config">>].raised

StateCallFails(ip) ==
    /\ ~env.hub[<<ip, "/api/config">>].raised
    /\ env.hub[<<ip, "/api/states">>].raised

\* The request of path was sent to the hub at ip.
Requested(ip, path) ==
    \E c \in 1..Len(calls) :
        calls[c].op = "requests.get" /\ calls[c].ip = ip /\ calls[c].path = path

\* The WorkloadRecords the run holds for the hub at ip.
HubRecords(ip) ==
    {<<k, j>> \in (1..Len(all_results)) \X (1..3) :
        /\ j <= Len(all_results[k].docker)
        /\ all_results[k].docker[j].host_ip = ip}

\* C16: a failed configuration call leaves exactly one ScanError and no state
\* call; a failed state call leaves exactly one ScanError whose component
\* differs from the one of a failed configuration call; either way the hub
\* adds no WorkloadRecord and the loop goes on to the remaining hubs.
C16_FailedHubCallsLoggedOnceAndSkipped ==
    /\ \A ip \in ScannedHubs :
          /\ ConfigCallFails(ip) =>
                /\ Cardinality(ErrorsFor(ip)) = 1
                /\ ~Requested(ip, "/api/states")
                /\ HubRecords(ip) = {}
          /\ StateCallFails(ip) =>
                /\ Cardinality(ErrorsFor(ip)) = 1
                /\ HubRecords(ip) = {}
    /\ \A a, b \in ScannedHubs :
          ConfigCallFails(a) /\ StateCallFails(b) =>
              \A x \in ErrorsFor(a), y \in ErrorsFor(b) :
                  errors_list[x].component # errors_list[y].component
    /\ Len(outcomes) < Len(env.homeassistant) => pc = "hubs"
    /\ pc = "hubs_done" => Len(outcomes) = Len(env.homeassistant)

\* The first hub failed its configuration call, the second its state call,
\* and both were scanned.
C16_Witness ==
    /\ pc = "hubs_done"
    /\ ConfigCallFails(HubCfg.ip)
    /\ StateCallFails(SecondHubCfg.ip)
    /\ Requested(SecondHubCfg.ip, "/api/states")
    /\ Len(errors_list) = 2

\* The state objects the hub at ip lists, when both its calls succeed.
ListedEntities(ip) ==
    LET c == env.hub[<<ip, "/api/config">>]
        st == env.hub[<<ip, "/api/states">>]
    IN  IF c.raised \/ st.raised \/ st.val.t # "list" THEN {}
        ELSE {st.val.v[k] : k \in 1..Len(st.val.v)}

\* Fields of a state object; None where the object has none.
Field(items, key) ==
    IF \E k \in 1..Len(items) : items[k][1] = key
    THEN (CHOOSE pair \in {items[k] : k \in 1..Len(items)} : pair[1] = key)[2].v
    ELSE None

IdOf(entity) == Field(entity.v, "entity_id")

StateOf(entity) == Field(entity.v, "state")

AttributeOf(entity, key) ==
    IF Field(entity.v, "attributes") = None THEN None
    ELSE Field(Field(entity.v, "attributes"), key)

\* part occurs in the identifier.
References(id, part) ==
    \E a \in 1..Len(id) : \E b \in a..Len(id) : SubSeq(id, a, b) = part

IsUpdateEntity(id) == Len(id) >= 7 /\ SubSeq(id, 1, 7) = "update."

\* The selection as the claim words it.
Selected(entity) ==
    /\ IsUpdateEntity(IdOf(entity))
    /\ AttributeOf(entity, "title") \notin {None, ""}
    /\ ~References(IdOf(entity), "_firmware")
    /\ References(IdOf(entity), "_update")

\* The WorkloadRecords the scan of hub k emitted for the identifier.
Emitted(k, id) ==
    {j \in 1..Len(outcomes[k].result.docker) :
        outcomes[k].result.docker[j].container_id = id}

\* C17: a listed state entity gets a WorkloadRecord exactly when it is an
\* update entity with a non-empty title whose identifier holds no firmware
\* reference and holds the update suffix; update.device_firmware gets none,
\* a titled update.addon_foo_update gets one.
C17_RecordExactlyForSelectedEntities ==
    \A k \in 1..Len(outcomes) :
        \A entity \in ListedEntities(outcomes[k].ip) :
            /\ Selected(entity) <=> Emitted(k, IdOf(entity)) # {}
            /\ IdOf(entity) = "update.device_firmware" => Emitted(k, IdOf(entity)) = {}
            /\ IdOf(entity) = "update.addon_foo_update" /\ AttributeOf(entity, "title") = "Foo"
                  => Cardinality(Emitted(k, IdOf(entity))) = 1

\* A scanned listing with a titled update.addon_foo_update that got its
\* record next to the add-on's.
C17_Witness ==
    /\ pc = "hubs_done"
    /\ \E entity \in ListedEntities(HubCfg.ip) :
          /\ IdOf(entity) = "update.addon_foo_update"
          /\ AttributeOf(entity, "title") = "Foo"
    /\ Len(outcomes[1].result.docker) = 2
    /\ outcomes[1].result.docker[1].container_id = "update.addon_foo_update"

\* A scanned listing with a titled update.device_firmware that got no record.
C17_FirmwareWitness ==
    /\ pc = "hubs_done"
    /\ \E entity \in ListedEntities(HubCfg.ip) :
          /\ IdOf(entity) = "update.device_firmware"
          /\ AttributeOf(entity, "title") = "Foo"
    /\ Len(outcomes[1].result.docker) = 1

\* The classification as the claim words it.
Classified(entity) ==
    IF StateOf(entity) = "unavailable" THEN "unavailable"
    ELSE IF StateOf(entity) = "on" THEN "update_available"
    ELSE "running"

\* C18: the record of a selected entity is unavailable when the entity is
\* unavailable, update_available when its state is on, running otherwise; its
\* status text is v and the installed version, followed by the latest version
\* when the state is on and a latest version is given, and by nothing when
\* the state is not on.
C18_StateAndStatusOfSelectedEntities ==
    \A k \in 1..Len(outcomes) :
        \A entity \in ListedEntities(outcomes[k].ip) :
            \A j \in Emitted(k, IdOf(entity)) :
                LET record == outcomes[k].result.docker[j]
                    installed == AttributeOf(entity, "installed_version")
                    latest == AttributeOf(entity, "latest_version")
                IN  /\ record.state = Classified(entity)
                    /\ record.state \in {"unavailable", "update_available", "running"}
                    /\ installed # None /\ StateOf(entity) # "on"
                          => record.status = "v" \o installed
                    /\ installed # None /\ StateOf(entity) = "on" /\ latest \notin {None, ""}
                          => record.status = "v" \o installed \o " -> " \o latest

\* The add-on of the example: state on, installed 1.0, latest 1.1, recorded
\* as update_available with v1.0 -> 1.1.
C18_Witness ==
    /\ pc = "hubs_done"
    /\ \E entity \in ListedEntities(HubCfg.ip) :
          /\ IdOf(entity) = "update.addon_foo_update"
          /\ StateOf(entity) = "on"
          /\ AttributeOf(entity, "installed_version") = "1.0"
          /\ AttributeOf(entity, "latest_version") = "1.1"
    /\ Len(outcomes[1].result.docker) = 2
    /\ outcomes[1].result.docker[1].state = "update_available"
    /\ outcomes[1].result.docker[1].status = "v1.0 -> 1.1"

\* An unavailable add-on with both versions given, recorded as unavailable
\* with the installed version alone.
C18_UnavailableWitness ==
    /\ pc = "hubs_done"
    /\ \E entity \in ListedEntities(HubCfg.ip) :
          /\ IdOf(entity) = "update.addon_foo_update"
          /\ StateOf(entity) = "unavailable"
          /\ AttributeOf(entity, "latest_version") = "1.1"
    /\ Len(outcomes[1].result.docker) = 2
    /\ outcomes[1].result.docker[1].state = "unavailable"
    /\ outcomes[1].result.docker[1].status = "v1.0"

-----------------------------------------------------------------------------
(* Claims about the end of a run *)

\* The ScanErrors the sink holds for the current run.
RecordedErrors ==
    {j \in 1..Len(db.scan_errors) : db.scan_errors[j].scan_id = scan_id}

\* The rows of the current run in scan_runs.
CurrentRuns == {j \in 1..Len(db.scan_runs) : db.scan_runs[j].id = scan_id}

\* C19: a run that ended has its ScanRun marked completed, with or without
\* ScanErrors; the count on the ScanRun is the number of ScanErrors recorded,
\* and the exit signal is non-zero exactly when there is at least one.
C19_CompletedWithCountAndExitSignal ==
    pc = "done" =>
        /\ Cardinality(CurrentRuns) = 1
        /\ \A j \in CurrentRuns :
              /\ db.scan_runs[j].status = "completed"
              /\ db.scan_runs[j].errors_count = Cardinality(RecordedErrors)
        /\ ret.exit_code # 0 <=> Cardinality(RecordedErrors) >= 1

\* A run that ended completed with three ScanErrors and a non-zero exit.
C19_Witness ==
    /\ pc = "done"
    /\ Cardinality(RecordedErrors) = 3
    /\ \A j \in CurrentRuns : db.scan_runs[j].status = "completed" /\ db.scan_runs[j].errors_count = 3
    /\ ret.exit_code = 1

\* A run that ended completed with no ScanError and exit signal zero.
C19_CleanWitness ==
    /\ pc = "done"
    /\ RecordedErrors = {}
    /\ \A j \in CurrentRuns : db.scan_runs[j].status = "completed"
    /\ all_results # <<>>
    /\ ret.exit_code = 0

-----------------------------------------------------------------------------
(* main run again and again against one environment: what every host, the
   hub and the local engine answer is fixed in env when the first run
   starts. *)

MaxRuns == 2

\* config.json with one host and one hub, and the answers of the outside
\* world to every call.
RepeatableEnvs ==
    {[proxmox_hosts |-> <<HostCfg(1)>>,
      ssh_credentials |-> MainSsh,
      homeassistant |-> <<HubCfg>>,
      host_world |-> hw, hub_world |-> uw, local_world |-> lw] :
        hw \in HostWorlds(1), uw \in HubWorlds(HubCfg.ip), lw \in LocalWorlds}

InitRepeat ==
    /\ pc = "begin"
    /\ env \in RepeatableEnvs
    /\ ret = NoneRec
    /\ errors_list = <<>>
    /\ all_results = <<>>
    /\ calls = <<>>
    /\ db = EmptyDb
    /\ scan_id = None
    /\ outcomes = <<>>

\* ScanHost with the host answering as env says.
RepeatScanHost ==
    /\ pc = "hosts"
    /\ LET i == Len(outcomes) + 1
           host_cfg == env.proxmox_hosts[i]
       IN  \E r \in {scan_proxmox_host(env.host_world, host_cfg, env.ssh_credentials, scan_id, errors_list, calls, ScanOptions(env))} :
             LET t == HostTry(r, scan_id, host_cfg, all_results)
             IN  /\ all_results' = t.all_results
                 /\ errors_list' = t.errors_list
                 /\ calls' = r.calls
                 /\ outcomes' = Append(outcomes,
                        [kind |-> "host", ip |-> host_cfg.ip,
                         raised |-> r.raised, exc |-> r.exc,
                         result |-> r.result])
                 /\ pc' = IF t.raised THEN "raised" ELSE LoopPc(env, i)
    /\ UNCHANGED <<env, ret, db, scan_id>>

\* ScanHub with the hub answering as env says.
RepeatScanHub ==
    /\ pc = "hubs"
    /\ LET i == Len(outcomes) + 1
           ha_cfg == env.homeassistant[i - Len(env.proxmox_hosts)]
       IN  \E r \in {scan_homeassistant(env.hub_world, ha_cfg, scan_id, errors_list, calls)} :
             LET t == HubTry(r, scan_id, ha_cfg, all_results)
             IN  /\ all_results' = t.all_results
                 /\ errors_list' = t.errors_list
                 /\ calls' = r.calls
                 /\ outcomes' = Append(outcomes,
                        [kind |-> "hub", ip |-> ha_cfg.ip,
                         raised |-> r.raised, exc |-> r.exc,
                         result |-> DockerOnlyResult(r.result.docker)])
                 /\ pc' = IF t.raised THEN "raised" ELSE LoopPc(env, i)
    /\ UNCHANGED <<env, ret, db, scan_id>>

\* ScanLocalDocker with the local engine answering as env says.
RepeatScanLocalDocker ==
    /\ pc = "local"
    /\ \E r \in {LocalDocker(env.local_world, scan_id, errors_list, calls, all_results)} :
         /\ all_results' = r.all_results
         /\ errors_list' = r.errors_list
         /\ calls' = r.calls
    /\ pc' = "save"
    /\ UNCHANGED <<env, ret, db, scan_id, outcomes>>

\* The scanner is started again: a new process, the same sink.
StartAgain ==
    /\ pc = "done"
    /\ db.next_id <= MaxRuns
    /\ pc' = "begin"
    /\ ret' = NoneRec
    /\ errors_list' = <<>>
    /\ all_results' = <<>>
    /\ calls' = <<>>
    /\ scan_id' = None
    /\ outcomes' = <<>>
    /\ UNCHANGED <<env, db>>

NextRepeat ==
    \/ BeginRun
    \/ RepeatScanHost
    \/ RepeatScanHub
    \/ RepeatScanLocalDocker
    \/ SaveToDatabase
    \/ UpdateScanRun
    \/ CleanupAndReturn
    \/ StartAgain

SpecRepeat == InitRepeat /\ [][NextRepeat]_vars

-----------------------------------------------------------------------------
(* Claims about repeated runs *)

\* A row without its run identifier.
Anonymous(row, key) == [f \in DOMAIN row \ {key} |-> row[f]]

\* The rows of run k in the table, in order, without their run identifier.
RowsOfRun(table, key, k) ==
    LET mine == SelectSeq(table, LAMBDA row : row[key] = k)
    IN  [j \in 1..Len(mine) |-> Anonymous(mine[j], key)]

\* The dataset and the error log of run k as the sink holds them.
DatasetOfRun(k) ==
    [scan_runs |-> RowsOfRun(db.scan_runs, "id", k),
     proxmox_hosts |-> RowsOfRun(db.proxmox_hosts, "scan_id", k),
     virtual_machines |-> RowsOfRun(db.virtual_machines, "scan_id", k),
     lxc_containers |-> RowsOfRun(db.lxc_containers, "scan_id", k),
     docker_containers |-> RowsOfRun(db.docker_containers, "scan_id", k),
     storage_info |-> RowsOfRun(db.storage_info, "scan_id", k),
     network_info |-> RowsOfRun(db.network_info, "scan_id", k),
     scan_errors |-> RowsOfRun(db.scan_errors, "scan_id", k)]

-----------------------------------------------------------------------------
(* Claims about the order of a run *)

\* The configured hubs.
ConfiguredHubs ==
    IF "homeassistant" \in DOMAIN env THEN env.homeassistant ELSE <<>>

\* The scanners main is to invoke, in order: one per host, then one per hub.
ExpectedInvocations ==
    [k \in 1..Len(env.proxmox_hosts) |-> <<"host", env.proxmox_hosts[k].ip>>]
    \o [k \in 1..Len(ConfiguredHubs) |-> <<"hub", ConfiguredHubs[k].ip>>]

\* A call that opens a scan: the authentication of a host scan, the
\* configuration request of a hub scan.
OpensScan(call) ==
    \/ call.op = "proxmox_authenticate"
    \/ call.op = "requests.get" /\ call.path = "/api/config"

\* The scans opened so far, in the order of the call log.
Invocations ==
    LET opened == SelectSeq(calls, OpensScan)
    IN  [k \in 1..Len(opened) |->
            <<IF opened[k].op = "proxmox_authenticate" THEN "host" ELSE "hub",
              opened[k].ip>>]

LoopsOver == pc \in {"local", "save", "finalize", "cleanup", "done"}

\* C21: the scans main has opened are always the first ones of the list
\* "every host in configuration order, then every hub in configuration
\* order", each once, and when the two loops are over they are the whole
\* list, whatever the earlier scans logged or raised.
C21_EveryHostThenEveryHubOnce ==
    /\ Len(Invocations) <= Len(ExpectedInvocations)
    /\ Invocations = SubSeq(ExpectedInvocations, 1, Len(Invocations))
    /\ Len(outcomes) = Len(Invocations)
    /\ LoopsOver => Invocations = ExpectedInvocations

\* The loops are over for one host and two hubs; the host's scan raised, the
\* first hub's scan raised, and the second hub was still scanned.
C21_Witness ==
    /\ LoopsOver
    /\ Len(env.proxmox_hosts) = 1 /\ Len(ConfiguredHubs) = 2
    /\ outcomes[1].raised
    /\ outcomes[2].raised
    /\ Invocations[3] = <<"hub", SecondHubCfg.ip>>

-----------------------------------------------------------------------------
(* Claims about the order of one host scan *)

\* The guests of the resource listing, in its order.
ListedGuests ==
    LET a == HostAnswer("/cluster/resources")
    IN  IF a.raised \/ a.val.t # "list" THEN <<>>
        ELSE SelectSeq(a.val.v, LAMBDA x : Field(x.v, "type") \in {"qemu", "lxc"})

\* The guest a listing entry is about.
GuestOfEntry(x) == CHOOSE g \in Guests : g.vmid = Field(x.v, "vmid")

\* The listed guests that run, have a resolved address and are not on the
\* skip list, as addresses in listing order.
GuestTargets ==
    LET wanted == SelectSeq(ListedGuests, LAMBDA x :
                      /\ Field(x.v, "status") = "running"
                      /\ ResolvedAddress(GuestOfEntry(x)) # None
                      /\ ~OnSkipList(GuestOfEntry(x).addr))
    IN  [k \in 1..Len(wanted) |-> GuestOfEntry(wanted[k]).addr]

\* The machines whose inventory the scan is to ask for, in order.
ExpectedTargets ==
    IF ~InventoryEnabled THEN <<>>
    ELSE IF "ssh_into_guests" \in DOMAIN env.scan_options THEN <<HostAddr(1)>>
    ELSE <<HostAddr(1)>> \o GuestTargets

\* An inventory opens with the presence check tried as the first user.
OpensInventory(call) ==
    /\ call.op = "ssh_exec"
    /\ call.command = CmdDockerCheck
    /\ call.user = env.ssh_config.username

\* The machines whose inventory was asked for, in the order of the call log.
InventoryTargets ==
    LET opened == SelectSeq(calls, OpensInventory)
    IN  [k \in 1..Len(opened) |-> opened[k].ip]

\* The queries that resolve guest addresses all come before the first
\* inventory.
ResolvedBeforeInventories ==
    \A a, b \in 1..Len(calls) :
        /\ calls[a].op = "proxmox_api"
        /\ calls[a].endpoint \in {AddressEndpoint(g) : g \in Guests}
        /\ OpensInventory(calls[b])
        => a < b

PassedDiscovery ==
    ~AuthenticationFails /\ ~TopologyFetchFails /\ ~TopologyHasNoNodes

\* C22: on a host that passed authentication and topology discovery, the
\* inventories asked for are: none with container scanning disabled;
\* otherwise the host first and then, with guest scanning enabled, each
\* running guest with a resolved address off the skip list, once, in listing
\* order; and all of them after the guest addresses were resolved.
C22_InventoriesInOrder ==
    HostScanDone /\ PassedDiscovery =>
        /\ InventoryTargets = ExpectedTargets
        /\ ResolvedBeforeInventories

\* The same for the scans that return.
C22_InventoriesInOrderWhenReturned ==
    pc = "returned" /\ PassedDiscovery =>
        /\ InventoryTargets = ExpectedTargets
        /\ ResolvedBeforeInventories

\* Whatever way the scan ends, the inventories asked for are the first ones
\* of the expected list, after the address queries.
C22_InventoriesArePrefix ==
    HostScanDone /\ PassedDiscovery =>
        /\ Len(InventoryTargets) <= Len(ExpectedTargets)
        /\ InventoryTargets = SubSeq(ExpectedTargets, 1, Len(InventoryTargets))
        /\ ResolvedBeforeInventories

-----------------------------------------------------------------------------
(* Claims about an inventory whose presence check cannot be run *)

\* The credentials the inventory has for its target.
Credentials ==
    IF env.ssh_config.alt_username \notin {None, "", env.ssh_config.username}
    THEN {env.ssh_config.username, env.ssh_config.alt_username}
    ELSE {env.ssh_config.username}

\* Every credential fails on the presence check.
PresenceCheckFails ==
    \A user \in Credentials : env.ssh[<<env.ip, CmdDockerCheck, user>>].raised

\* The ScanErrors the inventory added to the log it was given.
AddedErrors == SubSeq(errors_list, Len(env.errors0) + 1, Len(errors_list))

\* C23: when every credential fails on the presence check, the inventory
\* adds exactly one ScanError, for its target, runs neither the listing nor
\* the hostname command, and returns the empty list.
C23_FailedPresenceCheckEndsInventory ==
    DockerDone /\ PresenceCheckFails =>
        /\ pc = "returned"
        /\ ret = <<>>
        /\ Len(errors_list) = Len(env.errors0) + 1
        /\ SubSeq(errors_list, 1, Len(env.errors0)) = env.errors0
        /\ \A k \in 1..Len(AddedErrors) : AddedErrors[k].host_ip = env.ip
        /\ \A c \in 1..Len(calls) : calls[c].command = CmdDockerCheck /\ calls[c].raised
        /\ {calls[c].user : c \in 1..Len(calls)} = Credentials

\* Two credentials both failed on the presence check of a target whose
\* listing would have printed a container.
C23_Witness ==
    /\ pc = "returned"
    /\ Cardinality(Credentials) = 2
    /\ PresenceCheckFails
    /\ Len(calls) = 2
    /\ Len(AddedErrors) = 1
    /\ env.errors0 # <<>>
    /\ ~env.ssh[<<env.ip, CmdDockerPs, env.ssh_config.username>>].raised
    /\ ret = <<>>

-----------------------------------------------------------------------------
(* Claims about the order of the sink operations *)

\* The tables persist writes to.
DataTables(database) ==
    <<database.proxmox_hosts, database.virtual_machines,
      database.lxc_containers, database.docker_containers,
      database.storage_info, database.network_info, database.scan_errors>>

\* The number of rows the tables hold for run k.
RowsWritten(database, k) ==
    LET tables == DataTables(database)
        count(t) == Cardinality({j \in 1..Len(tables[t]) : tables[t][j].scan_id = k})
    IN  count(1) + count(2) + count(3) + count(4) + count(5) + count(6) + count(7)

\* The number of records and errors the run has collected.
RowsCollected ==
    LET parts(r) == Len(r.vms) + Len(r.lxcs) + Len(r.docker) + Len(r.storage) + Len(r.network) + (IF r.host # NoneRec THEN 1 ELSE 0)
        total[i \in 0..Len(all_results)] == IF i = 0 THEN 0 ELSE total[i - 1] + parts(all_results[i])
    IN  total[Len(all_results)] + Len(errors_list)

\* The state of the sink at each point of the run.
SinkPhases ==
    /\ pc = "begin" => calls = <<>> /\ db = InitialDb
    /\ pc \in {"hosts", "hubs", "local", "save", "finalize"} =>
          /\ Cardinality(CurrentRuns) = 1
          /\ \A j \in CurrentRuns : db.scan_runs[j].status = "running"
    /\ pc \in {"hosts", "hubs", "local", "save"} => RowsWritten(db, scan_id) = 0
    /\ pc \in {"finalize", "cleanup", "done"} => RowsWritten(db, scan_id) = RowsCollected
    /\ pc \in {"cleanup", "done"} =>
          /\ Cardinality(CurrentRuns) = 1
          /\ \A j \in CurrentRuns : db.scan_runs[j].status = "completed"
    /\ pc # "begin" => db.next_id = InitialDb.next_id + 1
    /\ pc # "done" => \A k \in 1..Len(InitialDb.scan_runs) : \E j \in 1..Len(db.scan_runs) : db.scan_runs[j] = InitialDb.scan_runs[k]

\* What a step of the run may do to the sink and when it may scan.
SinkSteps ==
    /\ db'.next_id # db.next_id => pc = "begin" /\ pc' # "begin"
    /\ DataTables(db') # DataTables(db) => pc = "save" /\ pc' = "finalize"
    /\ (\E j \in 1..Len(db.scan_runs) : j <= Len(db'.scan_runs) /\ db'.scan_runs[j].id = db.scan_runs[j].id /\ db'.scan_runs[j] # db.scan_runs[j])
          => pc = "finalize" /\ pc' = "cleanup"
    /\ Len(db'.scan_runs) < Len(db.scan_runs) => pc = "cleanup" /\ pc' = "done"
    /\ calls' # calls => pc \in {"hosts", "hubs", "local"}

\* C24: the sink sees begin-run, persist, finalize and retention in this
\* order, once each; between begin-run and finalize the run has exactly one
\* ScanRun and it is running; nothing is scanned before begin-run or after
\* persist.
C24_SinkOperationsInOrder == []SinkPhases /\ [][SinkSteps]_vars

\* A run with a retention count of one that ended: its host was recorded,
\* its ScanRun is completed and the earlier run is gone.
C24_Witness ==
    /\ pc = "done"
    /\ RowsWritten(db, scan_id) > 3
    /\ Len(db.scan_runs) = 1
    /\ db.scan_runs[1].id = scan_id
    /\ db.scan_runs[1].status = "completed"

-----------------------------------------------------------------------------
(* main with a sink that already holds runs and a configured retention
   count: no host and no hub, the local engine alone. *)

MaxPriorRuns == 3

MaxKeep == 3

\* The row of an earlier, finished run.
PriorRun(id) ==
    [id |-> id, status |-> "completed", hosts_scanned |-> 0, vms_found |-> 0,
     lxc_found |-> 0, docker_found |-> 0, errors_count |-> 0]

\* The rows of the runs in ids, lowest id first.
RECURSIVE PriorRuns(_)
PriorRuns(ids) ==
    IF ids = {} THEN <<>>
    ELSE LET top == CHOOSE id \in ids : \A other \in ids : other <= id
         IN  Append(PriorRuns(ids \ {top}), PriorRun(top))

\* config.json with or without max_old_scans, the runs the sink holds and
\* what the local engine answers.
RetentionEnvs ==
    {[proxmox_hosts |-> <<>>, ssh_credentials |-> MainSsh,
      prior_runs |-> ids, local_world |-> lw] :
        ids \in SUBSET (1..MaxPriorRuns), lw \in LocalWorlds}
    \cup
    {[proxmox_hosts |-> <<>>, ssh_credentials |-> MainSsh,
      scan_options |-> [max_old_scans |-> n],
      prior_runs |-> ids, local_world |-> lw] :
        n \in 0..MaxKeep, ids \in SUBSET (1..MaxPriorRuns), lw \in LocalWorlds}

InitRetention ==
    /\ pc = "begin"
    /\ env \in RetentionEnvs
    /\ ret = NoneRec
    /\ errors_list = <<>>
    /\ all_results = <<>>
    /\ calls = <<>>
    /\ db = [EmptyDb EXCEPT !.next_id = MaxPriorRuns + 1,
                            !.scan_runs = PriorRuns(env.prior_runs)]
    /\ scan_id = None
    /\ outcomes = <<>>

NextRetention ==
    \/ BeginRun
    \/ RepeatScanLocalDocker
    \/ SaveToDatabase
    \/ UpdateScanRun
    \/ CleanupAndReturn

SpecRetention == InitRetention /\ [][NextRetention]_vars

-----------------------------------------------------------------------------
(* Claims about retention *)

\* The retention count of the run.
RetentionCount ==
    IF "scan_options" \in DOMAIN env THEN env.scan_options.max_old_scans
    ELSE DefaultMaxOldScans

\* The runs there were when retention started, and the runs there are.
RunsBefore == env.prior_runs \cup {scan_id}

RunsKept == {db.scan_runs[j].id : j \in 1..Len(db.scan_runs)}

\* The runs kept are the RetentionCount most recent ones, or all of them.
KeptAreTheMostRecent ==
    /\ RunsKept \subseteq RunsBefore
    /\ Len(db.scan_runs) = Cardinality(RunsKept)
    /\ Cardinality(RunsKept) =
          IF Cardinality(RunsBefore) <= RetentionCount
          THEN Cardinality(RunsBefore) ELSE RetentionCount
    /\ \A kept \in RunsKept : \A gone \in RunsBefore \ RunsKept : gone < kept
    /\ \A j \in 1..Len(db.scan_runs) :
          db.scan_runs[j].id # scan_id => db.scan_runs[j] = PriorRun(db.scan_runs[j].id)

\* C25: after retention the runs kept are exactly the N most recent ones, or
\* all of them when there are at most N, and the run just finalized is among
\* them.
C25_KeepsMostRecentAndOwnRun ==
    pc = "done" => KeptAreTheMostRecent /\ scan_id \in RunsKept

\* C25 with the run's own row kept only under a positive count: with a count
\* of zero retention deletes every run, the one just finalized too.
C25_KeepsMostRecentAndOwnRunIfCounted ==
    pc = "done" =>
        /\ KeptAreTheMostRecent
        /\ RetentionCount >= 1 => scan_id \in RunsKept
        /\ RetentionCount = 0 => db.scan_runs = <<>>

\* Three earlier runs and a count of two: the run just finalized and the
\* latest earlier run are kept, the two oldest are gone.
C25_Witness ==
    /\ pc = "done"
    /\ env.prior_runs = {1, 2, 3}
    /\ RetentionCount = 2
    /\ RunsKept = {3, scan_id}
    /\ scan_id = 4

-----------------------------------------------------------------------------
(* Claims about the error log *)

\* The log after a step starts with the log before it.
LogOnlyGrows ==
    /\ Len(errors_list) <= Len(errors_list')
    /\ SubSeq(errors_list', 1, Len(errors_list)) = errors_list

\* Every ScanError of the log carries the identifier of the run.
LogCarriesRunId ==
    \A k \in 1..Len(errors_list) : errors_list[k].scan_id = scan_id

\* The ScanErrors the sink holds for the run, in order.
ErrorsInSink == SelectSeq(db.scan_errors, LAMBDA row : row.scan_id = scan_id)

\* Nothing is in the sink before persist; from persist on the sink holds the
\* log, every ScanError once.
LogHandedOverOnce ==
    /\ pc \in {"begin", "hosts", "hubs", "local", "save"} => ErrorsInSink = <<>>
    /\ pc \in {"finalize", "cleanup", "done"} => ErrorsInSink = errors_list

\* C26: no step of a run removes or rewrites a ScanError already in the log,
\* also not the step in which a host scan raises; every ScanError carries
\* the run's identifier; persist hands every ScanError of the log to the
\* sink exactly once.
C26_ErrorLogAppendOnly ==
    /\ [][LogOnlyGrows]_vars
    /\ [](LogCarriesRunId /\ LogHandedOverOnce)

\* A run that ended after a host scan logged an error of its own and then
\* raised: both that error and the one main logged for the exception are in
\* the sink.
C26_Witness ==
    /\ pc = "done"
    /\ \E k \in 1..Len(outcomes) :
          /\ outcomes[k].raised
          /\ \E a, b \in 1..Len(ErrorsInSink) :
                /\ a < b
                /\ ErrorsInSink[a].host_ip = outcomes[k].ip
                /\ ErrorsInSink[a].component # "Proxmox-Scan"
                /\ ErrorsInSink[b].host_ip = outcomes[k].ip
                /\ ErrorsInSink[b].component = "Proxmox-Scan"

====
